---- MODULE Spec2Model ----
(***************************************************************************)
(* Model of the RIK business-register data access subsystem:               *)
(*   - the bulk importers (scripts/create-database.js,                     *)
(*     scripts/import-board-stream.js) that fill the embedded store,       *)
(*   - the three query clients (RIKDatabaseClient, RIKOpenDataClient,      *)
(*     RIKApiClient),                                                      *)
(*   - the facade RIKClient (src/clients/index.ts) that composes them.     *)
(*                                                                         *)
(* Text values are sequences of one-character strings; Null stands for SQL *)
(* NULL / JavaScript undefined.  Registry codes are 1..MaxId, 0 stands for *)
(* "criterion not supplied".  Dates are naturals, 0 stands for NULL.       *)
(***************************************************************************)
EXTENDS Integers, Sequences, FiniteSets, TLC

\* ------------------------------------------------------------------ bounds
MaxId      == 2    \* registry codes are 1..MaxId
MaxRows    == 3    \* longest delimited file, in data rows
MaxRuns    == 2    \* importer script runs that are started
MaxObjs    == 2    \* longest JSON dump, in top-level objects
MaxMembers == 2    \* longest nested child array of one object
\* The importers commit every 1000 buffered records (create-database.js:176,
\* :264; import-board-stream.js:68).  The model scales that batch size down
\* so that full batches and remainders both occur within MaxRows.
BatchSize  == 2
\* searchByPerson ends its statement with LIMIT 100
\* (rik-database-client.ts:208); scaled down likewise so that more matching
\* rows than the limit occur within MaxObjs * MaxMembers.
PersonLimit == 2
\* The file-backed client keeps a loaded file for stdTTL: 3600 seconds
\* (part_005:104-107).  The model's clock ticks in units of half that time,
\* and stops at MaxTime, late enough for an entry to expire and a reloaded
\* one to be used again.
CacheTTL   == 2
MaxTime    == 4
\* Calls on the long-lived file-backed client that are logged.
MaxCalls   == 2
\* Callers whose loadBasicData calls overlap, and the calls they start.
MaxCallers == 2
MaxLoads   == 3
\* Largest retryAttempts a BaseAPIClient is configured with (past the point
\* where the retry delay reaches its cap), requests sent through one client,
\* and a cap on the times one request is issued that the code never reaches.
MaxAttempts == 4
MaxRequests == 2
MaxSends    == 6

Ids        == 1..MaxId
Null       == <<"<null>">>

\* Names that occur in the data files.
NameA      == <<"E", "x">>
NameB      == <<"Ü", "y">>
Names      == {NameA, NameB}

VARIABLES
  csvPresent,      \* the delimited file exists on disk
  csvFile,         \* its data rows, in file order
  jsonPresent,     \* the board-member JSON dump exists on disk
  jsonFile,        \* its top-level objects, in file order
  remote,          \* identifiers the remote portal knows
  dbFile,          \* .rik-data/rik_data.db: "absent", "empty" (no schema) or "schema"
  companies,       \* rows of table companies, in rowid order
  board_members,   \* rows of table board_members, in rowid (= id) order
  run,             \* importer script that is running, or "none"
  pass,            \* its current pass: "idle", "csv", "board"
  pos,             \* records of the current source already delivered
  buffer,          \* the in-memory batch (companies / batch array)
  count,           \* the pass's record counter
  fkOn,            \* foreign_keys pragma of the running script's connection
  runs,            \* importer script runs started so far
  passLog,         \* the current or last pass: its kind, the sizes of the
                   \* transactions it committed, and how it stands
  facade,          \* "none", "withDb" (dbClient set) or "fileOnly"
  construction,    \* how the last new RIKClient() went, see OpenStore
  dataCache,       \* RIKOpenDataClient.dataCache of the facade's file client
  liveCache,       \* RIKApiClient.cache: identifiers with cached details
  lastCall,        \* the last completed query call and what it did
  now,             \* the clock (Date.now()), in ticks
  cacheLog,        \* the last call on the long-lived file-backed client: what
                   \* the cache and the disk held when it was made
  loads,           \* the loadBasicData calls in flight on that client, per
                   \* caller, with the caller's last outcome
  http,            \* a BaseAPIClient and the request it is sending
  csvPassesDone,   \* completed passes over the delimited file
  boardPassesDone, \* completed passes over the JSON dump
  afterFirstCsv,   \* table companies when the first csv pass completed
  afterFirstBoard  \* row count of board_members when the first board pass completed

vars == <<csvPresent, csvFile, jsonPresent, jsonFile, remote, dbFile,
          companies, board_members, run, pass, pos, buffer, count, fkOn,
          runs, passLog, facade, construction, dataCache, liveCache, lastCall,
          now, cacheLog, loads, http, csvPassesDone,
          boardPassesDone, afterFirstCsv, afterFirstBoard>>

envVars    == <<csvPresent, csvFile, jsonPresent, jsonFile, remote>>
importVars == <<run, pass, pos, buffer, count, fkOn, runs, passLog>>
ghostVars  == <<csvPassesDone, boardPassesDone, afterFirstCsv, afterFirstBoard>>
clientVars == <<facade, construction, dataCache, liveCache, lastCall>>
sessionVars == <<now, cacheLog, loads, http>>

\* ----------------------------------------------------------- sequence helpers
RECURSIVE SeqsUpTo(_, _)
SeqsUpTo(S, n) ==
  IF n = 0 THEN {<<>>}
  ELSE LET shorter == SeqsUpTo(S, n - 1)
       IN  shorter \cup {Append(s, x) : s \in {t \in shorter : Len(t) = n - 1}, x \in S}

Range(s) == {s[i] : i \in 1..Len(s)}

\* ------------------------------------------------------------- the store
\* A row of the delimited file, as csv-parse delivers it.
CsvRow(k, n) == [ariregistri_kood |-> k, nimi |-> n]

\* INSERT OR IGNORE on the same key: the existing row wins.
InsertOrIgnoreCompany(tbl, row) ==
  IF \E i \in 1..Len(tbl) : tbl[i].registry_code = row.registry_code
  THEN tbl
  ELSE Append(tbl, row)

\* INSERT OR REPLACE INTO companies: registry_code is the PRIMARY KEY, so a
\* row with the same code is deleted and the new row is appended.
InsertOrReplaceCompany(tbl, row) ==
  Append(SelectSeq(tbl, LAMBDA r : r.registry_code # row.registry_code), row)

\* insertStmt.run(...) of importCompaniesFromCSV for one parsed row.
CompanyRowOf(rec) == [registry_code |-> rec.ariregistri_kood, name |-> rec.nimi]

\* insertMany(companies): one transaction over the buffered rows.
RECURSIVE InsertManyCompanies(_, _)
InsertManyCompanies(tbl, recs) ==
  IF recs = <<>> THEN tbl
  ELSE InsertManyCompanies(InsertOrReplaceCompany(tbl, CompanyRowOf(Head(recs))),
                           Tail(recs))

\* name TEXT NOT NULL: the statement binds `company.nimi || company[' nimi']`,
\* which is undefined (NULL) for a row whose name field is empty, and the
\* insert throws.
CompanyInsertFails(rec) == rec.nimi = <<>>

\* The rows before the first one whose insert throws.
RECURSIVE BeforeFailure(_)
BeforeFailure(recs) ==
  IF recs = <<>> \/ CompanyInsertFails(Head(recs)) THEN <<>>
  ELSE <<Head(recs)>> \o BeforeFailure(Tail(recs))

\* The same loop without db.transaction: each insert is committed on its
\* own, so the rows before the failing one stay.
InsertManyCompaniesEach(tbl, recs) ==
  IF \E i \in 1..Len(recs) : CompanyInsertFails(recs[i])
  THEN [ok |-> FALSE, tbl |-> InsertManyCompanies(tbl, BeforeFailure(recs))]
  ELSE [ok |-> TRUE, tbl |-> InsertManyCompanies(tbl, recs)]

\* insertMany = db.transaction(...): an insert that throws rolls the whole
\* batch back and the exception leaves insertMany.
InsertManyCompaniesTx(tbl, recs) ==
  IF \E i \in 1..Len(recs) : CompanyInsertFails(recs[i])
  THEN [ok |-> FALSE, tbl |-> tbl]
  ELSE [ok |-> TRUE, tbl |-> InsertManyCompanies(tbl, recs)]

\* ----------------------------------------------------- importer: csv pass
\* The log of a pass: no pass yet, a pass that has just started, and the same
\* log after one more insertMany(...) call of n records.
NoPass == [kind |-> "none", txs |-> <<>>, status |-> "idle"]
PassStarted(kind) == [kind |-> kind, txs |-> <<>>, status |-> "running"]
Committed(log, n) == [log EXCEPT !.txs = Append(@, n)]

\* The handler returns while the batch it handed to insertMany is still with
\* the handler: the records stay in the buffer.
AfterCommitPending(buf) == buf

\* The buffer once insertMany(...) has returned: the call is synchronous, and
\* the handler empties the array (companies.length = 0, batch = []) before it
\* returns to the stream.
AfterCommit(buf) == <<>>

\* node scripts/create-database.js: opens (creates) the store file, creates
\* the schema if absent and starts main() with importCompaniesFromCSV.
\* A missing delimited file makes createReadStream fail: the run dies.
StartCreateDatabase ==
  /\ run = "none"
  /\ runs < MaxRuns
  /\ runs' = runs + 1
  /\ dbFile' = "schema"
  /\ fkOn' = TRUE
  /\ IF csvPresent
     THEN /\ run' = "create-database"
          /\ pass' = "csv"
          /\ passLog' = PassStarted("csv")
     ELSE /\ run' = "none"
          /\ pass' = "idle"
          /\ passLog' = NoPass
  /\ pos' = 0
  /\ buffer' = <<>>
  /\ count' = 0
  /\ UNCHANGED <<envVars, sessionVars, companies, board_members, clientVars, ghostVars>>

\* A data line of the delimited file whose number of fields differs from the
\* header's.  csv-parse is set up with columns: true and without
\* relax_column_count or skip_records_with_error, so it does not deliver such
\* a line: it emits 'error'.
ShortRow == CsvRow(0, <<"?">>)

\* parser.on('data'): buffer the row, commit when the batch is full.  An
\* exception of insertMany leaves the handler and ends the process.
CsvData ==
  /\ run = "create-database"
  /\ pass = "csv"
  /\ pos < Len(csvFile)
  /\ csvFile[pos + 1] # ShortRow
  /\ LET row  == csvFile[pos + 1]
         buf  == Append(buffer, row)
         r    == InsertManyCompaniesTx(companies, buf)
     IN  IF Len(buf) >= BatchSize /\ ~r.ok
         THEN /\ companies' = r.tbl
              /\ passLog' = [passLog EXCEPT !.status = "failed"]
              /\ buffer' = <<>>
              /\ pos' = 0
              /\ count' = 0
              /\ run' = "none"
              /\ pass' = "idle"
         ELSE /\ pos' = pos + 1
              /\ count' = count + 1
              /\ UNCHANGED <<run, pass>>
              /\ IF Len(buf) >= BatchSize
                 THEN /\ companies' = r.tbl
                      /\ buffer' = AfterCommit(buf)
                      /\ passLog' = Committed(passLog, Len(buf))
                 ELSE /\ companies' = companies
                      /\ buffer' = buf
                      /\ passLog' = passLog
  /\ UNCHANGED <<envVars, sessionVars, dbFile, board_members, fkOn, runs,
                 clientVars, ghostVars>>

\* parser.on('error', reject): importCompaniesFromCSV rejects, main() catches,
\* prints the message and exits with status 1.  Batches committed before the
\* line stay in the store; the buffered rows are lost.
CsvError ==
  /\ run = "create-database"
  /\ pass = "csv"
  /\ pos < Len(csvFile)
  /\ csvFile[pos + 1] = ShortRow
  /\ run' = "none"
  /\ pass' = "idle"
  /\ pos' = 0
  /\ buffer' = <<>>
  /\ count' = 0
  /\ passLog' = [passLog EXCEPT !.status = "failed"]
  /\ UNCHANGED <<envVars, sessionVars, dbFile, companies, board_members, fkOn, runs,
                 clientVars, ghostVars>>

\* parser.on('end'): commit the remainder and resolve; main() goes on to
\* importBoardMembers, which skips when the dump is not on disk.
CsvEnd ==
  /\ run = "create-database"
  /\ pass = "csv"
  /\ pos = Len(csvFile)
  /\ LET r == IF Len(buffer) > 0 THEN InsertManyCompaniesTx(companies, buffer)
              ELSE [ok |-> TRUE, tbl |-> companies]
     IN  /\ companies' = r.tbl
         /\ csvPassesDone' = IF r.ok THEN csvPassesDone + 1 ELSE csvPassesDone
         /\ afterFirstCsv' = IF r.ok /\ csvPassesDone = 0 THEN r.tbl ELSE afterFirstCsv
         /\ IF ~r.ok
            THEN /\ pass' = "idle"
                 /\ run' = "none"
                 /\ passLog' = [passLog EXCEPT !.status = "failed"]
            ELSE IF jsonPresent
            THEN /\ pass' = "board"
                 /\ run' = run
                 /\ passLog' = PassStarted("board")
            ELSE /\ pass' = "idle"
                 /\ run' = "none"
                 /\ passLog' = [(IF Len(buffer) > 0 THEN Committed(passLog, Len(buffer))
                                 ELSE passLog) EXCEPT !.status = "done"]
  /\ pos' = 0
  /\ buffer' = <<>>
  /\ count' = 0
  /\ UNCHANGED <<envVars, sessionVars, dbFile, board_members, fkOn, runs, clientVars,
                 boardPassesDone, afterFirstBoard>>


\* --------------------------------------------------- importer: board pass
\* A JavaScript value read from the JSON dump: a number or a string.
JsNum(k) == [num |-> TRUE, v |-> k]
JsStr(k) == [num |-> FALSE, v |-> k]

\* String(x)
String(x) == JsStr(x.v)

\* The text a TEXT column stores for a bound JavaScript value.  A string is
\* stored as it is.  The driver binds a JavaScript number as a floating-point
\* value, which TEXT affinity renders with a fractional part ("14664821.0"):
\* a text equal to no registry code, written here as RealText + k.
RealText(k) == 1000 + k
BindText(x) == IF x.num THEN RealText(x.v) ELSE x.v

\* The first bound parameter of a batch entry: import-board-stream.js passes
\* String(company.ariregistri_kood), the other two scripts pass the value
\* as parsed.
BoundCode(script, kood) ==
  IF script = "import-board-stream" THEN BindText(String(kood)) ELSE BindText(kood)

Concat3(a, b, c) == a \o b \o c

\* full_name TEXT GENERATED ALWAYS AS (first_name || ' ' || last_name) STORED
GeneratedFullName(first, last) ==
  IF first = Null \/ last = Null THEN Null ELSE Concat3(first, <<" ">>, last)

\* batch.push([...]) for one nested entry.
BatchEntry(script, company, member) ==
  [registry_code |-> BoundCode(script, company.ariregistri_kood),
   first_name    |-> member.eesnimi,
   last_name     |-> member.nimi_arinimi,
   start_date    |-> member.algus_kpv]

\* FOREIGN KEY (registry_code) REFERENCES companies(registry_code)
ParentExists(ctbl, code) == \E i \in 1..Len(ctbl) : ctbl[i].registry_code = code

\* INSERT [OR IGNORE] INTO board_members: id INTEGER PRIMARY KEY
\* AUTOINCREMENT is the table's only key, so every insert adds a row.
InsertBoardRow(tbl, e) ==
  Append(tbl, [id            |-> Len(tbl) + 1,
               registry_code |-> e.registry_code,
               first_name    |-> e.first_name,
               last_name     |-> e.last_name,
               full_name     |-> GeneratedFullName(e.first_name, e.last_name),
               start_date    |-> e.start_date])

RECURSIVE InsertAllBoard(_, _)
InsertAllBoard(tbl, batch) ==
  IF batch = <<>> THEN tbl
  ELSE InsertAllBoard(InsertBoardRow(tbl, Head(batch)), Tail(batch))

\* insertMany(batch): one transaction.  With foreign keys enforced, an entry
\* whose parent row is missing makes its insert throw, and the transaction
\* is rolled back as a whole.
InsertManyBoard(tbl, batch, fk, ctbl) ==
  IF fk /\ \E i \in 1..Len(batch) : ~ParentExists(ctbl, batch[i].registry_code)
  THEN [ok |-> FALSE, tbl |-> tbl]
  ELSE [ok |-> TRUE, tbl |-> InsertAllBoard(tbl, batch)]

\* The loop of the 'data' handler over one object's nested array.
RECURSIVE PushMembers(_, _, _, _, _, _, _, _)
PushMembers(script, company, members, tbl, buf, fk, ctbl, log) ==
  IF members = <<>> THEN [ok |-> TRUE, tbl |-> tbl, buf |-> buf, log |-> log]
  ELSE LET b == Append(buf, BatchEntry(script, company, Head(members)))
       IN  IF Len(b) >= BatchSize
           THEN LET r == InsertManyBoard(tbl, b, fk, ctbl)
                IN  IF r.ok
                    THEN PushMembers(script, company, Tail(members), r.tbl,
                                     AfterCommit(b), fk, ctbl, Committed(log, Len(b)))
                    ELSE [ok |-> FALSE, tbl |-> tbl, buf |-> b, log |-> log]
           ELSE PushMembers(script, company, Tail(members), tbl, b, fk, ctbl, log)

BoardScripts == {"import-board-stream", "import-board-members"}

\* node scripts/import-board-stream.js | import-board-members.js: opens
\* (creates) the store file and prepares the insert, which fails when the
\* schema is missing; then streams the dump, which fails when it is missing.
\* These scripts set no foreign_keys pragma: the engine's default applies.
StartBoardScript(script, fkDefault) ==
  /\ run = "none"
  /\ runs < MaxRuns
  /\ runs' = runs + 1
  /\ dbFile' = IF dbFile = "absent" THEN "empty" ELSE dbFile
  /\ fkOn' = fkDefault
  /\ IF dbFile = "schema" /\ jsonPresent
     THEN /\ run' = script
          /\ pass' = "board"
          /\ passLog' = PassStarted("board")
     ELSE /\ run' = "none"
          /\ pass' = "idle"
          /\ passLog' = NoPass
  /\ pos' = 0
  /\ buffer' = <<>>
  /\ count' = 0
  /\ UNCHANGED <<envVars, sessionVars, companies, board_members, clientVars, ghostVars>>

\* pipeline.on('data') / stream.on('data'): one top-level object.
BoardData ==
  /\ pass = "board"
  /\ pos < Len(jsonFile)
  /\ LET company == jsonFile[pos + 1]
         r == PushMembers(run, company, company.kaardile_kantud_isikud,
                          board_members, buffer, fkOn, companies, passLog)
     IN  IF r.ok
         THEN /\ board_members' = r.tbl
              /\ buffer' = r.buf
              /\ pos' = pos + 1
              /\ count' = count + Len(company.kaardile_kantud_isikud)
              /\ passLog' = r.log
              /\ UNCHANGED <<run, pass>>
         ELSE /\ board_members' = r.tbl
              /\ passLog' = [r.log EXCEPT !.status = "failed"]
              /\ buffer' = <<>>
              /\ pos' = 0
              /\ count' = 0
              /\ run' = "none"
              /\ pass' = "idle"
  /\ UNCHANGED <<envVars, sessionVars, dbFile, companies, fkOn, runs, clientVars, ghostVars>>

\* pipeline.on('end') / stream.on('end'): commit the remainder.
BoardEnd ==
  /\ pass = "board"
  /\ pos = Len(jsonFile)
  /\ LET r == IF Len(buffer) > 0
              THEN InsertManyBoard(board_members, buffer, fkOn, companies)
              ELSE [ok |-> TRUE, tbl |-> board_members]
     IN  /\ board_members' = r.tbl
         /\ boardPassesDone' = IF r.ok THEN boardPassesDone + 1 ELSE boardPassesDone
         /\ afterFirstBoard' = IF r.ok /\ boardPassesDone = 0 THEN Len(r.tbl)
                               ELSE afterFirstBoard
         /\ passLog' = IF ~r.ok THEN [passLog EXCEPT !.status = "failed"]
                       ELSE [(IF Len(buffer) > 0 THEN Committed(passLog, Len(buffer))
                              ELSE passLog) EXCEPT !.status = "done"]
  /\ run' = "none"
  /\ pass' = "idle"
  /\ pos' = 0
  /\ buffer' = <<>>
  /\ count' = 0
  /\ UNCHANGED <<envVars, sessionVars, dbFile, companies, fkOn, runs, clientVars,
                 csvPassesDone, afterFirstCsv>>


\* ------------------------------------------------------------ text helpers
\* String.prototype.toLowerCase, per character.
ToLowerCase(c) ==
  CASE c = "A" -> "a" [] c = "B" -> "b" [] c = "C" -> "c" [] c = "E" -> "e"
    [] c = "Ü" -> "ü" [] OTHER -> c

\* The case folding of SQLite's LIKE: ASCII letters only.
LikeFold(c) ==
  CASE c = "A" -> "a" [] c = "B" -> "b" [] c = "C" -> "c" [] c = "E" -> "e"
    [] OTHER -> c

\* haystack.toLowerCase().includes(needle.toLowerCase())
Includes(hay, needle) ==
  \E i \in 0..(Len(hay) - Len(needle)) :
    \A j \in 1..Len(needle) : ToLowerCase(hay[i + j]) = ToLowerCase(needle[j])

\* column = needle: the whole value, no wildcards.
LikeWhole(hay, needle) == hay = needle

\* column LIKE '%needle%'; NULL LIKE anything is not true.
Like(hay, needle) ==
  /\ hay # Null
  /\ \E i \in 0..(Len(hay) - Len(needle)) :
       \A j \in 1..Len(needle) : LikeFold(hay[i + j]) = LikeFold(needle[j])

\* LIMIT n: the first n rows; a negative n is no limit.
Take(s, n) == IF n < 0 \/ Len(s) <= n THEN s ELSE SubSeq(s, 1, n)

RECURSIVE Trim(_)
Trim(t) ==
  IF t = <<>> THEN t
  ELSE IF Head(t) = " " THEN Trim(Tail(t))
  ELSE IF t[Len(t)] = " " THEN Trim(SubSeq(t, 1, Len(t) - 1))
  ELSE t

\* x || ''
OrEmpty(x) == IF x = Null THEN <<>> ELSE x

\* ------------------------------------------------------- call outcomes
Value(v)  == [kind |-> "value", err |-> "", val |-> v]
Throw(e)  == [kind |-> "throw", err |-> e, val |-> <<>>]
NotCalled == [kind |-> "notcalled", err |-> "", val |-> <<>>]

\* Messages of the errors the clients raise.
ErrCompanyNotFound == "Company not found"
ErrDataFile        == "Data file not found"
ErrStore           == "SqliteError"
ErrLiveNotFound    == "Failed to get company details: Company not found"
ErrLiveFailed      == "Failed to get company details: request failed"

DefaultLimit == 100

\* Search criteria: registryCode 0 and name <<>> are "not supplied" (both are
\* falsy in JavaScript), limit 0 likewise.
Params(code, name, limit) == [registryCode |-> code, name |-> name, limit |-> limit]

\* params.limit || 100
LimitOf(params) == IF params.limit = 0 THEN DefaultLimit ELSE params.limit

\* ------------------------------------------- RIKDatabaseClient (store tier)
\* Every statement fails when the file has no schema, or when the engine
\* reports a fault (an I/O error, a locked or corrupt file).
StoreFails(fault) == fault \/ dbFile # "schema"

DbSearchCompanies(params) ==
  LET hit(r) == /\ (params.registryCode # 0 => r.registry_code = params.registryCode)
                /\ (params.name # <<>> => Like(r.name, params.name))
  IN  Take(SelectSeq(companies, hit), LimitOf(params))

\* stmt.get(registryCode) always reports "not found".
DbGetCompanyDetailsNever(code) == Throw(ErrCompanyNotFound)

DbGetCompanyDetails(code) ==
  LET rows == SelectSeq(companies, LAMBDA r : r.registry_code = code)
  IN  IF rows = <<>> THEN Throw(ErrCompanyNotFound)
      ELSE Value(<<rows[1]>>)

\* ORDER BY start_date DESC (NULL, written 0, sorts last); insertion sort
\* that keeps rowid order among equal dates.
RECURSIVE InsertDesc(_, _)
InsertDesc(sorted, r) ==
  IF sorted = <<>> THEN <<r>>
  ELSE IF Head(sorted).start_date >= r.start_date
       THEN <<Head(sorted)>> \o InsertDesc(Tail(sorted), r)
       ELSE <<r>> \o sorted

RECURSIVE OrderByStartDesc(_)
OrderByStartDesc(rows) ==
  IF rows = <<>> THEN <<>>
  ELSE InsertDesc(OrderByStartDesc(SubSeq(rows, 1, Len(rows) - 1)), rows[Len(rows)])

\* m.full_name || `${m.first_name || ''} ${m.last_name || ''}`.trim() || 'Unknown'
MemberName(m) ==
  IF m.full_name # Null /\ m.full_name # <<>> THEN m.full_name
  ELSE LET t == Trim(Concat3(OrEmpty(m.first_name), <<" ">>, OrEmpty(m.last_name)))
       IN  IF t # <<>> THEN t ELSE <<"Unknown">>

RECURSIVE MapMembers(_)
MapMembers(rows) ==
  IF rows = <<>> THEN <<>>
  ELSE <<[name |-> MemberName(Head(rows)), start_date |-> Head(rows).start_date]>>
       \o MapMembers(Tail(rows))

\* The same statement without its ORDER BY clause.
DbGetBoardMembersUnordered(code) ==
  MapMembers(SelectSeq(board_members, LAMBDA r : r.registry_code = code))

DbGetBoardMembers(code) ==
  MapMembers(OrderByStartDesc(SelectSeq(board_members, LAMBDA r : r.registry_code = code)))

CompanyNameOf(code) ==
  (SelectSeq(companies, LAMBDA r : r.registry_code = code))[1].name

RECURSIVE JoinCompanies(_)
JoinCompanies(rows) ==
  IF rows = <<>> THEN <<>>
  ELSE IF ParentExists(companies, Head(rows).registry_code)
       THEN <<[registry_code |-> Head(rows).registry_code,
               person_name   |-> Head(rows).full_name,
               start_date    |-> Head(rows).start_date,
               company_name  |-> CompanyNameOf(Head(rows).registry_code)]>>
            \o JoinCompanies(Tail(rows))
       ELSE JoinCompanies(Tail(rows))

DbSearchByPerson(name) ==
  Take(JoinCompanies(OrderByStartDesc(
         SelectSeq(board_members, LAMBDA r : Like(r.full_name, name)))), PersonLimit)

DbGetStatistics ==
  <<[total_companies |-> Len(companies), total_board_members |-> Len(board_members)]>>

\* One call on the store client.
DbCall(op, arg, fault) ==
  IF StoreFails(fault) THEN Throw(ErrStore)
  ELSE CASE op = "search"               -> Value(DbSearchCompanies(arg))
         [] op = "getDetails"           -> DbGetCompanyDetails(arg)
         [] op = "getAffiliatedPersons" -> Value(DbGetBoardMembers(arg))
         [] op = "searchByPersonName"   -> Value(DbSearchByPerson(arg))
         [] op = "aggregate"            -> Value(DbGetStatistics)

\* ------------------------------------- RIKOpenDataClient (file-backed tier)
\* companies.set(record.ariregistri_kood, record): a Map keeps the position
\* of a key's first insertion and the value of its last.
MapSet(m, rec) ==
  IF \E i \in 1..Len(m) : m[i].ariregistri_kood = rec.ariregistri_kood
  THEN [i \in 1..Len(m) |->
          IF m[i].ariregistri_kood = rec.ariregistri_kood THEN rec ELSE m[i]]
  ELSE Append(m, rec)

RECURSIVE ParseBasic(_, _)
ParseBasic(m, rows) ==
  IF rows = <<>> THEN m ELSE ParseBasic(MapSet(m, Head(rows)), Tail(rows))

\* new NodeCache({ stdTTL: 3600 }): no entry.  An entry is the value in a
\* one-element sequence, with the time it is kept until.
NoCache == [basic |-> <<>>, basicUntil |-> 0, board |-> <<>>, boardUntil |-> 0]

\* A cache whose entries never expire.
FreshForever(entry, until) == entry # <<>>

\* dataCache.get(key) finds the entry: it was set and its time has not
\* passed (node-cache drops an entry once its time is before Date.now()).
Fresh(entry, until) == entry # <<>> /\ now <= until

\* dataCache.get(key) on an entry whose time has passed deletes it.
DropStale(cache) ==
  [basic      |-> IF Fresh(cache.basic, cache.basicUntil) THEN cache.basic ELSE <<>>,
   basicUntil |-> IF Fresh(cache.basic, cache.basicUntil) THEN cache.basicUntil ELSE 0,
   board      |-> cache.board,
   boardUntil |-> cache.boardUntil]

DropStaleJson(cache) ==
  [basic      |-> cache.basic,
   basicUntil |-> cache.basicUntil,
   board      |-> IF Fresh(cache.board, cache.boardUntil) THEN cache.board ELSE <<>>,
   boardUntil |-> IF Fresh(cache.board, cache.boardUntil) THEN cache.boardUntil ELSE 0]

\* loadBasicData: the cached map, or the parsed file, which is then cached
\* for CacheTTL; getDataFilePath throws when the file is not on disk.
LoadBasicData(cache) ==
  IF Fresh(cache.basic, cache.basicUntil)
  THEN [ok |-> TRUE, data |-> cache.basic[1], cache |-> cache]
  ELSE IF ~csvPresent THEN [ok |-> FALSE, data |-> <<>>, cache |-> DropStale(cache)]
  ELSE LET m == ParseBasic(<<>>, csvFile)
       IN  [ok |-> TRUE, data |-> m,
            cache |-> [cache EXCEPT !.basic = <<m>>, !.basicUntil = now + CacheTTL]]

\* loadJsonData('board_members')
LoadJsonData(cache) ==
  IF Fresh(cache.board, cache.boardUntil)
  THEN [ok |-> TRUE, data |-> cache.board[1], cache |-> cache]
  ELSE IF ~jsonPresent THEN [ok |-> FALSE, data |-> <<>>, cache |-> DropStaleJson(cache)]
  ELSE [ok |-> TRUE, data |-> jsonFile,
        cache |-> [cache EXCEPT !.board = <<jsonFile>>, !.boardUntil = now + CacheTTL]]

FileCompanyData(c) == [registry_code |-> c.ariregistri_kood, name |-> c.nimi]

\* The scan of searchCompanies: stops once limit results are collected.
RECURSIVE FileScan(_, _, _)
FileScan(m, params, results) ==
  IF m = <<>> THEN results
  ELSE LET c == Head(m)
           match == IF params.registryCode # 0 /\ c.ariregistri_kood = params.registryCode
                    THEN TRUE
                    ELSE /\ params.name # <<>>
                         /\ c.nimi # <<>>
                         /\ Includes(c.nimi, params.name)
           res == IF match THEN Append(results, FileCompanyData(c)) ELSE results
       IN  IF match /\ Len(res) >= LimitOf(params) THEN res
           ELSE FileScan(Tail(m), params, res)

\* Each operation returns its outcome and the cache it leaves.
FileSearchCompanies(params, cache) ==
  LET l == LoadBasicData(cache)
  IN  IF ~l.ok THEN [out |-> Throw(ErrDataFile), cache |-> l.cache]
      ELSE [out |-> Value(FileScan(l.data, params, <<>>)), cache |-> l.cache]

\* An identifier missing from the map is answered with a placeholder record.
FileGetCompanyDetailsPlaceholder(code, cache) ==
  LET l == LoadBasicData(cache)
  IN  IF ~l.ok THEN [out |-> Throw(ErrDataFile), cache |-> l.cache]
      ELSE [out |-> Value(<<[registry_code |-> code, name |-> <<"C", "o">>]>>),
            cache |-> l.cache]

\* getCompanyDetails; the general_data dump is not on disk in this model, so
\* the best-effort join is skipped and the basic record is returned.
FileGetCompanyDetails(code, cache) ==
  LET l == LoadBasicData(cache)
      rows == SelectSeq(l.data, LAMBDA c : c.ariregistri_kood = code)
  IN  IF ~l.ok THEN [out |-> Throw(ErrDataFile), cache |-> l.cache]
      ELSE IF rows = <<>> THEN [out |-> Throw(ErrCompanyNotFound), cache |-> l.cache]
      ELSE [out |-> Value(<<FileCompanyData(rows[1])>>), cache |-> l.cache]

\* new Date().toISOString().split('T')[0]: a date later than any in the dump.
Today == 3

\* m.isiku_nimi || m.nimi, m.algus_kp || today of a top-level element of the
\* dump.
RECURSIVE MapFileMembers(_)
MapFileMembers(objs) ==
  IF objs = <<>> THEN <<>>
  ELSE <<[name |-> Head(objs).isiku_nimi, start_date |-> Today]>> \o MapFileMembers(Tail(objs))

\* getBoardMembers: elements whose ariregistri_kood === registryCode (a
\* string); a missing dump is caught and gives [].
FileGetBoardMembers(code, cache) ==
  LET l == LoadJsonData(cache)
  IN  IF ~l.ok THEN [out |-> Value(<<>>), cache |-> l.cache]
      ELSE [out |-> Value(MapFileMembers(
                      SelectSeq(l.data, LAMBDA m : m.ariregistri_kood = JsStr(code)))),
            cache |-> l.cache]

\* The loop of searchByPerson over the dump's elements; loadBasicData runs at
\* the first match, and its failure ends the search with [].
RECURSIVE PersonScan(_, _, _, _)
PersonScan(objs, name, results, cache) ==
  IF objs = <<>> THEN [out |-> Value(results), cache |-> cache]
  ELSE LET m == Head(objs)
           match == /\ name # <<>>
                    /\ m.isiku_nimi # Null
                    /\ Includes(m.isiku_nimi, name)
       IN  IF ~match THEN PersonScan(Tail(objs), name, results, cache)
           ELSE LET l == LoadBasicData(cache)
                    cs == SelectSeq(l.data, LAMBDA c : c.ariregistri_kood = m.ariregistri_kood.v)
                IN  IF ~l.ok THEN [out |-> Value(<<>>), cache |-> l.cache]
                    ELSE IF cs = <<>> \/ m.ariregistri_kood.num
                    THEN PersonScan(Tail(objs), name, results, l.cache)
                    ELSE PersonScan(Tail(objs), name,
                           Append(results, [registry_code |-> m.ariregistri_kood.v,
                                            person_name   |-> m.isiku_nimi,
                                            start_date    |-> 0,
                                            company_name  |-> cs[1].nimi]),
                           l.cache)

FileSearchByPerson(name, cache) ==
  LET l == LoadJsonData(cache)
  IN  IF ~l.ok THEN [out |-> Value(<<>>), cache |-> l.cache]
      ELSE PersonScan(l.data, name, <<>>, l.cache)

FileGetStatistics(cache) ==
  LET l == LoadBasicData(cache)
  IN  IF ~l.ok THEN [out |-> Throw(ErrDataFile), cache |-> l.cache]
      ELSE [out |-> Value(<<[total_companies |-> Len(l.data), total_board_members |-> 0]>>),
            cache |-> l.cache]

FileCall(op, arg, cache) ==
  CASE op = "search"               -> FileSearchCompanies(arg, cache)
    [] op = "getDetails"           -> FileGetCompanyDetails(arg, cache)
    [] op = "getAffiliatedPersons" -> FileGetBoardMembers(arg, cache)
    [] op = "searchByPersonName"   -> FileSearchByPerson(arg, cache)
    [] op = "aggregate"            -> FileGetStatistics(cache)


\* ------------------------------------------- RIKApiClient (live-fetch tier)
\* parseCompanyDetails: the record scraped from the portal's page.
LiveRecord(code) == [registry_code |-> code, name |-> NameA]

\* getCompanyDetails: the cached record, or one GET of /eng/company/<code>.
\* The request fails when the network is down; the portal answers 200 for
\* the identifiers it knows and another status below 500 otherwise.
LiveGetCompanyDetails(code, netUp, cache) ==
  IF code \in cache THEN [out |-> Value(<<LiveRecord(code)>>), cache |-> cache]
  ELSE IF ~netUp THEN [out |-> Throw(ErrLiveFailed), cache |-> cache]
  ELSE IF code \notin remote THEN [out |-> Throw(ErrLiveNotFound), cache |-> cache]
  ELSE [out |-> Value(<<LiveRecord(code)>>), cache |-> cache \cup {code}]

\* ------------------------------------------------------ RIKClient (facade)
Ops == {"search", "getDetails", "getAffiliatedPersons", "searchByPersonName", "aggregate"}

\* Every store result is handed on to the file tier.
StoreReturnsNever(op, s) == FALSE

\* The store's outcome is returned whatever it is: no try { } catch { }
\* around the store call.
StoreReturnsAlways(op, s) == TRUE

\* Whether the facade returns the store's outcome: `return await
\* this.dbClient.<op>(...)` returns every value; getBoardMembers returns only
\* `if (members.length > 0)`.
StoreReturns(op, s) ==
  /\ s.kind = "value"
  /\ (op = "getAffiliatedPersons" => s.val # <<>>)

\* Whether the fallback call is wrapped in try { } catch { return []; }.
FileErrorCaught(op) == op \in {"search", "getAffiliatedPersons", "searchByPersonName"}

\* One query through a facade that looks for the store file at every call
\* instead of using the client its constructor made.
FacadeCallReopening(op, arg, fault) ==
  LET hasDb == dbFile # "absent"
      s     == IF hasDb THEN DbCall(op, arg, fault) ELSE NotCalled
  IN  IF hasDb /\ StoreReturns(op, s)
      THEN [storeCalled |-> TRUE, storeOut |-> s, fileCalled |-> FALSE,
            fileOut |-> NotCalled, liveCalled |-> FALSE, out |-> s,
            cache |-> dataCache]
      ELSE LET f == FileCall(op, arg, dataCache)
           IN  [storeCalled |-> hasDb, storeOut |-> s, fileCalled |-> TRUE,
                fileOut |-> f.out, liveCalled |-> FALSE,
                out |-> IF f.out.kind = "throw" /\ FileErrorCaught(op)
                        THEN Value(<<>>) ELSE f.out,
                cache |-> f.cache]

\* One query through the facade.
FacadeCall(op, arg, fault) ==
  LET hasDb == facade = "withDb"
      s     == IF hasDb THEN DbCall(op, arg, fault) ELSE NotCalled
  IN  IF hasDb /\ StoreReturns(op, s)
      THEN [storeCalled |-> TRUE, storeOut |-> s, fileCalled |-> FALSE,
            fileOut |-> NotCalled, liveCalled |-> FALSE, out |-> s,
            cache |-> dataCache]
      ELSE LET f == FileCall(op, arg, dataCache)
           IN  [storeCalled |-> hasDb, storeOut |-> s, fileCalled |-> TRUE,
                fileOut |-> f.out, liveCalled |-> FALSE,
                out |-> IF f.out.kind = "throw" /\ FileErrorCaught(op)
                        THEN Value(<<>>) ELSE f.out,
                cache |-> f.cache]

\* What each tier's entity data holds for the identifier of a getDetails
\* call, and which tiers can be reached, at the time of the call (recorded
\* with the call).
StoreHas(code) == ParentExists(companies, code)
FileHas(code)  == \E i \in 1..Len(csvFile) : csvFile[i].ariregistri_kood = code
Holds(op, arg) ==
  IF op = "getDetails"
  THEN [store |-> StoreHas(arg), file |-> FileHas(arg), remote |-> arg \in remote,
        rows |-> {companies[i] : i \in {j \in 1..Len(companies) :
                                          companies[j].registry_code = arg}}]
  ELSE [store |-> FALSE, file |-> FALSE, remote |-> FALSE, rows |-> {}]

CallRecord(via, op, arg, fault, netUp, r) ==
  [via |-> via, op |-> op, arg |-> arg, fault |-> fault,
   construction |-> construction,
   storeCalled |-> r.storeCalled, storeOut |-> r.storeOut,
   fileCalled |-> r.fileCalled, fileOut |-> r.fileOut,
   liveCalled |-> r.liveCalled, out |-> r.out,
   holds |-> Holds(op, arg),
   up |-> [store |-> ~StoreFails(fault), file |-> csvPresent, live |-> netUp]]

\* Arguments the calls are made with.
SearchParams ==
  {Params(1, <<>>, 0), Params(0, <<"e">>, 0), Params(0, <<"ü">>, 1), Params(MaxId, <<"e">>, 0)}
PersonQueries == {<<"a">>, <<"C">>}
ArgsOf(op) ==
  CASE op = "search"               -> SearchParams
    [] op = "getDetails"           -> Ids
    [] op = "getAffiliatedPersons" -> Ids
    [] op = "searchByPersonName"   -> PersonQueries
    [] op = "aggregate"            -> {0}

\* The constructor's store block without its try { } catch { }: a failing
\* new RIKDatabaseClient() ends the construction with an exception.
OpenStoreUncaught(exists, openFails) ==
  IF ~exists THEN "absent" ELSE IF openFails THEN "raised" ELSE "opened"

\* The constructor's store block: fs.existsSync(dbPath), then new
\* RIKDatabaseClient(), whose exception is caught and dropped.
OpenStore(exists, openFails) ==
  IF ~exists THEN "absent" ELSE IF openFails THEN "openFailed" ELSE "opened"

\* new RIKClient(): dbClient is set when the store file exists and opens; a
\* construction that raised would leave no facade object.
Construct(openFails) ==
  /\ construction' = OpenStore(dbFile # "absent", openFails)
  /\ facade' = CASE construction' = "opened" -> "withDb"
                  [] construction' = "raised" -> "none"
                  [] OTHER -> "fileOnly"
  /\ dataCache' = NoCache
  /\ UNCHANGED <<envVars, sessionVars, dbFile, companies, board_members, importVars,
                 liveCache, lastCall, ghostVars>>

\* A query method of RIKClient on a store connection that is open for
\* writing, whose getBoardMembers statement removes the rows it has read.
FacadeQueryConsuming(op, arg, fault) ==
  /\ facade # "none"
  /\ LET r == FacadeCall(op, arg, fault)
     IN  /\ lastCall' = CallRecord("facade", op, arg, fault, FALSE, r)
         /\ dataCache' = r.cache
         /\ board_members' =
              IF op = "getAffiliatedPersons" /\ r.storeCalled /\ r.storeOut.kind = "value"
              THEN SelectSeq(board_members, LAMBDA m : m.registry_code # arg)
              ELSE board_members
  /\ UNCHANGED <<envVars, sessionVars, dbFile, companies, importVars,
                 facade, construction, liveCache, ghostVars>>

\* A query method of RIKClient.
FacadeQuery(op, arg, fault) ==
  /\ facade # "none"
  /\ LET r == FacadeCall(op, arg, fault)
     IN  /\ lastCall' = CallRecord("facade", op, arg, fault, FALSE, r)
         /\ dataCache' = r.cache
  /\ UNCHANGED <<envVars, sessionVars, dbFile, companies, board_members, importVars,
                 facade, construction, liveCache, ghostVars>>

\* A query made directly on a RIKDatabaseClient (its constructor needs the
\* store file to exist).
StoreQuery(op, arg, fault) ==
  /\ dbFile # "absent"
  /\ LET s == DbCall(op, arg, fault)
     IN  lastCall' = CallRecord("store", op, arg, fault, FALSE,
                       [storeCalled |-> TRUE, storeOut |-> s, fileCalled |-> FALSE,
                        fileOut |-> NotCalled, liveCalled |-> FALSE, out |-> s])
  /\ UNCHANGED <<envVars, sessionVars, dbFile, companies, board_members, importVars,
                 facade, construction, dataCache, liveCache, ghostVars>>

\* A query made directly on a freshly constructed RIKOpenDataClient.
FileQuery(op, arg) ==
  /\ LET f == FileCall(op, arg, NoCache)
     IN  lastCall' = CallRecord("file", op, arg, FALSE, FALSE,
                       [storeCalled |-> FALSE, storeOut |-> NotCalled, fileCalled |-> TRUE,
                        fileOut |-> f.out, liveCalled |-> FALSE, out |-> f.out])
  /\ UNCHANGED <<envVars, sessionVars, dbFile, companies, board_members, importVars,
                 facade, construction, dataCache, liveCache, ghostVars>>

\* getCompanyDetails on the server's RIKApiClient.
LiveQuery(code, netUp) ==
  /\ LET l == LiveGetCompanyDetails(code, netUp, liveCache)
     IN  /\ lastCall' = CallRecord("live", "getDetails", code, FALSE, netUp,
                           [storeCalled |-> FALSE, storeOut |-> NotCalled,
                            fileCalled |-> FALSE, fileOut |-> NotCalled,
                            liveCalled |-> TRUE, out |-> l.out])
         /\ liveCache' = l.cache
  /\ UNCHANGED <<envVars, sessionVars, dbFile, companies, board_members, importVars,
                 facade, construction, dataCache, ghostVars>>

\* ------------------------------------------------- availability probe
\* Names of OPEN_DATA_FILES the probe asks about (two of the six).
OpenDataFiles == {"basic_data", "board_members"}

\* RIKOpenDataClient.checkDataAvailability: one HEAD request per file, each
\* in its own try { } catch; ok200 holds the files whose request is answered
\* with status 200.
FileCheckDataAvailability(ok200) == [f \in OpenDataFiles |-> f \in ok200]

\* RIKClient.checkDataAvailability: the store part calls getStatistics with
\* no try { } catch around it, then the file-backed client's report is
\* merged in.  Keys the code leaves out of the report are FALSE here.
FacadeCheckDataAvailability(fault, ok200) ==
  LET hasDb == facade = "withDb"
      s     == IF hasDb THEN DbCall("aggregate", 0, fault) ELSE NotCalled
      files == FileCheckDataAvailability(ok200)
  IN  IF hasDb /\ s.kind = "throw"
      THEN [storeCalled |-> TRUE, storeOut |-> s, fileCalled |-> FALSE,
            fileOut |-> NotCalled, liveCalled |-> FALSE, out |-> s]
      ELSE [storeCalled |-> hasDb, storeOut |-> s, fileCalled |-> TRUE,
            fileOut |-> Value(<<files>>), liveCalled |-> FALSE,
            out |-> Value(<<[database |-> hasDb,
                             database_companies |->
                               hasDb /\ s.val[1].total_companies > 0,
                             database_board_members |->
                               hasDb /\ s.val[1].total_board_members > 0,
                             files |-> files]>>)]

\* await client.checkDataAvailability()
FacadeProbe(fault, ok200) ==
  /\ facade # "none"
  /\ lastCall' = CallRecord("probe", "availability", ok200, fault, FALSE,
                            FacadeCheckDataAvailability(fault, ok200))
  /\ UNCHANGED <<envVars, sessionVars, dbFile, companies, board_members, importVars,
                 facade, construction, dataCache, liveCache, ghostVars>>

\* ------------------------------------------------------------------ initial
NoCall ==
  [via |-> "none", op |-> "none", arg |-> 0, fault |-> FALSE,
   construction |-> "none",
   storeCalled |-> FALSE, storeOut |-> NotCalled,
   fileCalled |-> FALSE, fileOut |-> NotCalled,
   liveCalled |-> FALSE, out |-> NotCalled,
   holds |-> [store |-> FALSE, file |-> FALSE, remote |-> FALSE, rows |-> {}],
   up |-> [store |-> FALSE, file |-> FALSE, live |-> FALSE]]

\* config.retryAttempts || 3
DefaultRetryAttempts == 3

\* A BaseAPIClient whose interceptor was set up with these retryAttempts,
\* before it has sent anything.
NoRequest(attempts) ==
  [attempts |-> attempts, n |-> 0, st |-> "idle", retry |-> 0, sent |-> 0,
   waits |-> <<>>, last |-> 0]

\* No loadBasicData call has been started.
Callers == 1..MaxCallers
Idle    == [st |-> "idle", pos |-> 0, map |-> <<>>, out |-> NotCalled]
NoLoads == [started |-> 0, of |-> [c \in Callers |-> Idle]]

\* No call on the long-lived file-backed client yet.
NoLog == [n |-> 0, op |-> "none", arg |-> 0, at |-> 0, before |-> NoCache,
          after |-> NoCache,
          present |-> FALSE, disk |-> <<>>, out |-> NotCalled]

CsvFiles == SeqsUpTo({CsvRow(k, n) : k \in Ids, n \in Names}, MaxRows)

InitStore ==
  /\ dbFile = "absent"
  /\ companies = <<>>
  /\ board_members = <<>>
  /\ run = "none"
  /\ pass = "idle"
  /\ pos = 0
  /\ buffer = <<>>
  /\ count = 0
  /\ fkOn = TRUE
  /\ runs = 0
  /\ passLog = NoPass
  /\ facade = "none"
  /\ construction = "none"
  /\ dataCache = NoCache
  /\ liveCache = {}
  /\ lastCall = NoCall
  /\ now = 0
  /\ cacheLog = NoLog
  /\ loads = NoLoads
  /\ http = NoRequest(DefaultRetryAttempts)
  /\ csvPassesDone = 0
  /\ boardPassesDone = 0
  /\ afterFirstCsv = <<>>
  /\ afterFirstBoard = 0

\* The delimited-file importer alone: any file of up to MaxRows rows, no
\* JSON dump on disk.
InitImport ==
  /\ csvPresent = TRUE
  /\ csvFile \in CsvFiles
  /\ jsonPresent = FALSE
  /\ jsonFile = <<>>
  /\ remote = {}
  /\ InitStore

NextImport == StartCreateDatabase \/ CsvData \/ CsvEnd

SpecImport == InitImport /\ [][NextImport]_vars

\* The delimited-file importer over files whose lines may have the wrong
\* number of fields or an empty name field.
MalformedCsvFiles ==
  SeqsUpTo({CsvRow(k, n) : k \in Ids, n \in Names \cup {<<>>}} \cup {ShortRow}, MaxRows)

InitMalformed ==
  /\ csvPresent = TRUE
  /\ csvFile \in MalformedCsvFiles
  /\ jsonPresent = FALSE
  /\ jsonFile = <<>>
  /\ remote = {}
  /\ InitStore

NextMalformed == StartCreateDatabase \/ CsvData \/ CsvError \/ CsvEnd

SpecMalformed == InitMalformed /\ [][NextMalformed]_vars

\* Nested entries of the dump: a natural person and a legal person (no
\* first name).
MemberP == [eesnimi |-> <<"A">>, nimi_arinimi |-> <<"B">>, algus_kpv |-> 1]
MemberL == [eesnimi |-> Null, nimi_arinimi |-> <<"C">>, algus_kpv |-> 2]
Members == {MemberP, MemberL}

\* A top-level element of the dump in the nested shape the importers read.
JsonObject(k, ms) ==
  [ariregistri_kood |-> k, isiku_nimi |-> Null, kaardile_kantud_isikud |-> ms]
JsonObjects ==
  {JsonObject(k, ms) : k \in {JsNum(i) : i \in Ids} \cup {JsStr(i) : i \in Ids},
                       ms \in SeqsUpTo(Members, MaxMembers)}
JsonFiles == SeqsUpTo(JsonObjects, MaxObjs)

\* The board-member importers: any dump of up to MaxObjs objects, imported
\* into a store whose entity table was filled from a file of one or two rows.
BoardCsvFiles == {<<CsvRow(1, NameA)>>, <<CsvRow(1, NameA), CsvRow(2, NameB)>>}

InitBoard ==
  /\ csvPresent = TRUE
  /\ csvFile \in BoardCsvFiles
  /\ jsonPresent = TRUE
  /\ jsonFile \in JsonFiles
  /\ remote = {}
  /\ InitStore

NextBoard ==
  \/ StartCreateDatabase
  \/ CsvData
  \/ CsvEnd
  \/ \E script \in BoardScripts, fkDefault \in BOOLEAN : StartBoardScript(script, fkDefault)
  \/ BoardData
  \/ BoardEnd

SpecBoard == InitBoard /\ [][NextBoard]_vars

\* A dump in the flat shape the file-backed client reads: one element per
\* person, named at the top level.
FlatObject(k, n) ==
  [ariregistri_kood |-> k, isiku_nimi |-> n, kaardile_kantud_isikud |-> <<>>]

\* The whole subsystem with a few concrete files.
ServeCsvFiles ==
  {<<>>, <<CsvRow(1, NameA)>>, <<CsvRow(1, NameA), CsvRow(2, NameB), CsvRow(1, NameB)>>}
ServeJsonFiles ==
  {<<JsonObject(JsStr(1), <<MemberP, MemberL>>)>>,
   <<FlatObject(JsStr(1), <<"A", " ", "B">>), JsonObject(JsNum(2), <<MemberL>>)>>}

Init ==
  /\ csvPresent \in BOOLEAN
  /\ csvFile \in IF csvPresent THEN ServeCsvFiles ELSE {<<>>}
  /\ jsonPresent \in BOOLEAN
  /\ jsonFile \in IF jsonPresent THEN ServeJsonFiles ELSE {<<>>}
  /\ remote = {}
  /\ InitStore

Next ==
  \/ StartCreateDatabase
  \/ CsvData
  \/ CsvEnd
  \/ \E script \in BoardScripts, fkDefault \in BOOLEAN : StartBoardScript(script, fkDefault)
  \/ BoardData
  \/ BoardEnd
  \/ \E openFails \in BOOLEAN : Construct(openFails)
  \/ \E op \in Ops : \E arg \in ArgsOf(op), fault \in BOOLEAN : FacadeQuery(op, arg, fault)
  \/ \E fault \in BOOLEAN, ok200 \in SUBSET OpenDataFiles : FacadeProbe(fault, ok200)

Spec == Init /\ [][Next]_vars

\* ------------------------------------------ the long-lived file-backed client
\* Time passes.
Tick ==
  /\ now < MaxTime
  /\ now' = now + 1
  /\ UNCHANGED <<envVars, cacheLog, loads, http, dbFile, companies, board_members,
                 importVars, clientVars, ghostVars>>

\* bun run download-data: downloads the archives and unpacks them over the
\* files in the data directory (unzip -o).
DownloadData(f, j) ==
  /\ ~csvPresent \/ ~jsonPresent \/ f # csvFile \/ j # jsonFile
  /\ csvPresent' = TRUE
  /\ csvFile' = f
  /\ jsonPresent' = TRUE
  /\ jsonFile' = j
  /\ UNCHANGED <<remote, sessionVars, dbFile, companies, board_members, importVars,
                 clientVars, ghostVars>>

\* A method of the RIKOpenDataClient instance that the facade holds, called
\* while the instance lives; the log keeps what the call found.
CachedFileCall(op, arg) ==
  /\ facade # "none"
  /\ cacheLog.n < MaxCalls
  /\ LET f == FileCall(op, arg, dataCache)
     IN  /\ dataCache' = f.cache
         /\ cacheLog' = [n |-> cacheLog.n + 1, op |-> op, arg |-> arg, at |-> now,
                         before |-> dataCache, after |-> f.cache,
                         present |-> csvPresent,
                         disk |-> csvFile, out |-> f.out]
  /\ UNCHANGED <<envVars, now, loads, http, dbFile, companies, board_members, importVars,
                 facade, construction, liveCache, lastCall, ghostVars>>

InitCache ==
  /\ csvPresent \in BOOLEAN
  /\ csvFile \in IF csvPresent THEN ServeCsvFiles ELSE {<<>>}
  /\ jsonPresent \in BOOLEAN
  /\ jsonFile \in IF jsonPresent THEN ServeJsonFiles ELSE {<<>>}
  /\ remote = {}
  /\ InitStore

NextCache ==
  \/ \E openFails \in BOOLEAN : Construct(openFails)
  \/ \E op \in Ops : \E arg \in ArgsOf(op) : CachedFileCall(op, arg)
  \/ Tick
  \/ \E f \in ServeCsvFiles, j \in ServeJsonFiles : DownloadData(f, j)

SpecCache == InitCache /\ [][NextCache]_vars

\* ------------------------------------------------- overlapping loads
ErrCsvParse == "Invalid Record Length"

\* The loader publishes the map it is filling as soon as it has a row.
EntryWhileParsingShared(cache, map) ==
  [cache EXCEPT !.basic = <<map>>, !.basicUntil = now + CacheTTL]

\* The cache while a parse is under way: the map being filled is local to
\* the call (const companies = new Map()), nothing is written.
EntryWhileParsing(cache, map) == cache

\* loadBasicData up to its first await: the cached map is returned at once;
\* otherwise getDataFilePath throws when the file is missing, or the parse
\* is started.
LoadStart(c) ==
  /\ facade # "none"
  /\ loads.of[c].st = "idle"
  /\ loads.started < MaxLoads
  /\ LET rec == IF Fresh(dataCache.basic, dataCache.basicUntil)
                THEN [Idle EXCEPT !.out = Value(dataCache.basic)]
                ELSE IF ~csvPresent THEN [Idle EXCEPT !.out = Throw(ErrDataFile)]
                ELSE [st |-> "parsing", pos |-> 0, map |-> <<>>, out |-> NotCalled]
     IN  loads' = [started |-> loads.started + 1, of |-> [loads.of EXCEPT ![c] = rec]]
  /\ dataCache' = IF Fresh(dataCache.basic, dataCache.basicUntil) THEN dataCache
                  ELSE DropStale(dataCache)
  /\ UNCHANGED <<envVars, now, cacheLog, http, dbFile, companies, board_members, importVars,
                 facade, construction, liveCache, lastCall, ghostVars>>

\* parser.on('readable'): the next record goes into the call's map; a line
\* with the wrong number of fields makes the parser emit 'error' and the
\* call reject.
LoadRead(c) ==
  /\ loads.of[c].st = "parsing"
  /\ loads.of[c].pos < Len(csvFile)
  /\ LET l   == loads.of[c]
         row == csvFile[l.pos + 1]
         m   == MapSet(l.map, row)
     IN  IF row = ShortRow
         THEN /\ loads' = [loads EXCEPT !.of[c] = [Idle EXCEPT !.out = Throw(ErrCsvParse)]]
              /\ dataCache' = dataCache
         ELSE /\ loads' = [loads EXCEPT !.of[c] = [l EXCEPT !.pos = l.pos + 1, !.map = m]]
              /\ dataCache' = EntryWhileParsing(dataCache, m)
  /\ UNCHANGED <<envVars, now, cacheLog, http, dbFile, companies, board_members, importVars,
                 facade, construction, liveCache, lastCall, ghostVars>>

\* parser.on('end'): the map is cached and the call resolves with it.
LoadEnd(c) ==
  /\ loads.of[c].st = "parsing"
  /\ loads.of[c].pos = Len(csvFile)
  /\ dataCache' = [dataCache EXCEPT !.basic = <<loads.of[c].map>>,
                                    !.basicUntil = now + CacheTTL]
  /\ loads' = [loads EXCEPT !.of[c] = [Idle EXCEPT !.out = Value(<<loads.of[c].map>>)]]
  /\ UNCHANGED <<envVars, now, cacheLog, http, dbFile, companies, board_members, importVars,
                 facade, construction, liveCache, lastCall, ghostVars>>

\* A file-backed client that has been constructed (no store file), and a
\* delimited file whose lines may have the wrong number of fields.
LoadCsvFiles ==
  SeqsUpTo({CsvRow(k, n) : k \in Ids, n \in Names} \cup {ShortRow}, MaxRows)

InitLoads ==
  /\ csvPresent \in BOOLEAN
  /\ csvFile \in IF csvPresent THEN LoadCsvFiles ELSE {<<>>}
  /\ jsonPresent = FALSE
  /\ jsonFile = <<>>
  /\ remote = {}
  /\ dbFile = "absent"
  /\ companies = <<>>
  /\ board_members = <<>>
  /\ run = "none"
  /\ pass = "idle"
  /\ pos = 0
  /\ buffer = <<>>
  /\ count = 0
  /\ fkOn = TRUE
  /\ runs = 0
  /\ passLog = NoPass
  /\ facade = "fileOnly"
  /\ construction = "absent"
  /\ dataCache = NoCache
  /\ liveCache = {}
  /\ lastCall = NoCall
  /\ now = 0
  /\ cacheLog = NoLog
  /\ loads = NoLoads
  /\ http = NoRequest(DefaultRetryAttempts)
  /\ csvPassesDone = 0
  /\ boardPassesDone = 0
  /\ afterFirstCsv = <<>>
  /\ afterFirstBoard = 0

NextLoads ==
  \/ \E c \in Callers : LoadStart(c)
  \/ \E c \in Callers : LoadRead(c)
  \/ \E c \in Callers : LoadEnd(c)

SpecLoads == InitLoads /\ [][NextLoads]_vars

\* ------------------------------------------------------- BaseAPIClient
RECURSIVE Pow2(_)
Pow2(n) == IF n = 0 THEN 1 ELSE 2 * Pow2(n - 1)

Min(a, b) == IF a <= b THEN a ELSE b

\* getRetryDelay(attempt), in milliseconds.
GetRetryDelay(attempt) == Min(1000 * Pow2(attempt), 10000)

\* An interceptor that never gives up.
ExhaustedNever(retry, attempts) == FALSE

\* config.retry >= retryAttempts
Exhausted(retry, attempts) == retry >= attempts

\* What answers a request: status 200, 429 or 500, or no response at all
\* (a network error or the timeout), written 0.
Statuses == {200, 429, 500, 0}

\* this.client.get(...): a new request, whose config carries no retry count.
SendRequest ==
  /\ http.st \in {"idle", "resolved", "rejected"}
  /\ http.n < MaxRequests
  /\ http' = [http EXCEPT !.n = @ + 1, !.st = "inflight", !.retry = 0, !.sent = 1,
                          !.waits = <<>>, !.last = 0]
  /\ UNCHANGED <<envVars, now, cacheLog, loads, dbFile, companies, board_members,
                 importVars, clientVars, ghostVars>>

\* The response interceptor: a 2xx response is passed on; on an error the
\* request is rejected when its retries are used up, and otherwise rejected
\* unless the status is 429, for which the interceptor sleeps.
Response(status) ==
  /\ http.st = "inflight"
  /\ IF status = 200
     THEN http' = [http EXCEPT !.st = "resolved", !.last = status]
     ELSE IF Exhausted(http.retry, http.attempts)
     THEN http' = [http EXCEPT !.st = "rejected", !.last = status]
     ELSE IF status = 429
     THEN http' = [http EXCEPT !.st = "sleeping", !.last = status,
                               !.retry = @ + 1,
                               !.waits = Append(@, GetRetryDelay(http.retry + 1))]
     ELSE http' = [http EXCEPT !.st = "rejected", !.last = status, !.retry = @ + 1]
  /\ UNCHANGED <<envVars, now, cacheLog, loads, dbFile, companies, board_members,
                 importVars, clientVars, ghostVars>>

\* The sleep is over: return this.client(config), the same config again.
Reissue ==
  /\ http.st = "sleeping"
  /\ http.sent < MaxSends
  /\ http' = [http EXCEPT !.st = "inflight", !.sent = @ + 1]
  /\ UNCHANGED <<envVars, now, cacheLog, loads, dbFile, companies, board_members,
                 importVars, clientVars, ghostVars>>

InitRetry ==
  /\ csvPresent = FALSE
  /\ csvFile = <<>>
  /\ jsonPresent = FALSE
  /\ jsonFile = <<>>
  /\ remote = {}
  /\ dbFile = "absent"
  /\ companies = <<>>
  /\ board_members = <<>>
  /\ run = "none"
  /\ pass = "idle"
  /\ pos = 0
  /\ buffer = <<>>
  /\ count = 0
  /\ fkOn = TRUE
  /\ runs = 0
  /\ passLog = NoPass
  /\ facade = "none"
  /\ construction = "none"
  /\ dataCache = NoCache
  /\ liveCache = {}
  /\ lastCall = NoCall
  /\ now = 0
  /\ cacheLog = NoLog
  /\ loads = NoLoads
  /\ http \in {NoRequest(a) : a \in 1..MaxAttempts}
  /\ csvPassesDone = 0
  /\ boardPassesDone = 0
  /\ afterFirstCsv = <<>>
  /\ afterFirstBoard = 0

NextRetry ==
  \/ SendRequest
  \/ \E status \in Statuses : Response(status)
  \/ Reissue

\* Every request that is sent is answered or times out (axios timeout), and
\* every sleep ends (setTimeout).
SpecRetry ==
  /\ InitRetry
  /\ [][NextRetry]_vars
  /\ WF_vars(\E status \in Statuses : Response(status))
  /\ WF_vars(Reissue)

\* The three query clients called directly, over a store that the delimited
\* file importer fills.
InitTiers ==
  /\ csvPresent \in BOOLEAN
  /\ csvFile \in IF csvPresent THEN ServeCsvFiles ELSE {<<>>}
  /\ jsonPresent = FALSE
  /\ jsonFile = <<>>
  /\ remote \in SUBSET Ids
  /\ InitStore

NextTiers ==
  \/ StartCreateDatabase
  \/ CsvData
  \/ CsvEnd
  \/ \E op \in Ops : \E arg \in ArgsOf(op), fault \in BOOLEAN : StoreQuery(op, arg, fault)
  \/ \E op \in Ops : \E arg \in ArgsOf(op) : FileQuery(op, arg)
  \/ \E code \in Ids, netUp \in BOOLEAN : LiveQuery(code, netUp)

SpecTiers == InitTiers /\ [][NextTiers]_vars

\* ------------------------------------------------------------------ claims
\* Index of the last row of the delimited file that carries identifier k.
LastRowIndex(k) ==
  CHOOSE i \in 1..Len(csvFile) :
    /\ csvFile[i].ariregistri_kood = k
    /\ \A j \in (i + 1)..Len(csvFile) : csvFile[j].ariregistri_kood # k

CodesOf(tbl) == {tbl[i].registry_code : i \in 1..Len(tbl)}
FileCodes    == {csvFile[i].ariregistri_kood : i \in 1..Len(csvFile)}

\* C9: entity import idempotence.  At every moment the entity table has at
\* most one row per identifier; once a pass over the delimited file has
\* completed, the table holds exactly the file's identifiers, each with the
\* values of the last record written for it; and a second pass over the same
\* file leaves the row count and the identifier set as the first pass left
\* them.
C9_EntityImportIdempotent ==
  /\ \A i, j \in 1..Len(companies) :
        companies[i].registry_code = companies[j].registry_code => i = j
  /\ (csvPassesDone >= 1 /\ run = "none") =>
        /\ CodesOf(companies) = FileCodes
        /\ \A i \in 1..Len(companies) :
              companies[i].name = csvFile[LastRowIndex(companies[i].registry_code)].nimi
        /\ Len(companies) = Len(afterFirstCsv)
        /\ CodesOf(companies) = CodesOf(afterFirstCsv)

\* C9 witness: the same file, in which one identifier occurs twice with
\* different values, has been imported twice.
C9_Witness ==
  /\ csvPassesDone = 2
  /\ run = "none"
  /\ \E i, j \in 1..Len(csvFile) :
        /\ i < j
        /\ csvFile[i].ariregistri_kood = csvFile[j].ariregistri_kood
        /\ csvFile[i].nimi # csvFile[j].nimi
  /\ Len(companies) >= 1

\* C10: child import idempotence.  Once a pass over the JSON dump has
\* completed, importing the same dump again never takes the child-row count
\* above the count the first completed pass left.
C10_ChildImportIdempotent ==
  boardPassesDone >= 1 => Len(board_members) <= afterFirstBoard

\* ---------------------------------------------------- claims on the facade
IsFacadeCall == lastCall.via = "facade"

\* A stage answered: it was called and returned a non-empty value.
Answered(called, o) == called /\ o.kind = "value" /\ o.val # <<>>

\* C1: resolver precedence.  When the store stage of a search, getDetails or
\* getAffiliatedPersons call returns a non-empty, non-error result, the
\* facade returns exactly that result and invokes neither the file-backed
\* tier nor the live tier.
C1_StorePrecedence ==
  (/\ IsFacadeCall
   /\ lastCall.op \in {"search", "getDetails", "getAffiliatedPersons"}
   /\ Answered(lastCall.storeCalled, lastCall.storeOut))
  => /\ lastCall.out = lastCall.storeOut
     /\ ~lastCall.fileCalled
     /\ ~lastCall.liveCalled

\* C1 witness: the store answered a getAffiliatedPersons call with rows.
C1_Witness ==
  /\ IsFacadeCall
  /\ lastCall.op = "getAffiliatedPersons"
  /\ Answered(lastCall.storeCalled, lastCall.storeOut)
  /\ lastCall.out.val # <<>>

\* C2: fallback on empty.  When the store stage of a search,
\* getAffiliatedPersons or searchByPersonName call completes without error
\* but with an empty result, the facade invokes the file-backed tier, and a
\* non-empty file-tier result is what it returns.
C2_FallbackOnEmpty ==
  (/\ IsFacadeCall
   /\ lastCall.op \in {"search", "getAffiliatedPersons", "searchByPersonName"}
   /\ lastCall.storeCalled
   /\ lastCall.storeOut = Value(<<>>))
  => /\ lastCall.fileCalled
     /\ (Answered(lastCall.fileCalled, lastCall.fileOut)
           => lastCall.out = lastCall.fileOut)

\* C3: the live tier is the last stage.  When neither the store stage nor
\* the file-backed stage of a facade call answered, the live-fetch client is
\* invoked.
C3_LiveIsLastStage ==
  (/\ IsFacadeCall
   /\ ~Answered(lastCall.storeCalled, lastCall.storeOut)
   /\ ~Answered(lastCall.fileCalled, lastCall.fileOut))
  => lastCall.liveCalled

\* C4: store failures are absorbed.  When the store stage of any facade
\* query raises, the facade goes on to the file-backed tier; what the caller
\* gets is that tier's outcome (or [] where the facade catches that tier's
\* error), never the store's exception.
C4_StoreFailureAbsorbed ==
  (/\ IsFacadeCall
   /\ lastCall.storeCalled
   /\ lastCall.storeOut.kind = "throw")
  => /\ lastCall.fileCalled
     /\ lastCall.out.err # ErrStore
     /\ (lastCall.fileOut.kind = "value" => lastCall.out = lastCall.fileOut)
     /\ (lastCall.out.kind = "throw" => lastCall.out = lastCall.fileOut)

\* C4 witness: the store raised an engine error and the caller still got a
\* non-empty answer from the file-backed tier.
C4_Witness ==
  /\ IsFacadeCall
  /\ lastCall.storeCalled
  /\ lastCall.storeOut = Throw(ErrStore)
  /\ lastCall.out.kind = "value"
  /\ lastCall.out.val # <<>>

\* Every tier the call consulted failed as unavailable.
AllSourcesFailed ==
  /\ lastCall.storeCalled => lastCall.storeOut = Throw(ErrStore)
  /\ lastCall.fileCalled => lastCall.fileOut = Throw(ErrDataFile)

\* C5: a facade query raises exactly when every tier it consulted failed as
\* unavailable.
C5_RaisesIffAllSourcesFailed ==
  IsFacadeCall => (lastCall.out.kind = "throw" <=> AllSourcesFailed)

\* C6: getDetails through the facade for an identifier that no tier holds,
\* with every tier reachable, does not end in a thrown exception.
C6_NotFoundIsAValue ==
  (/\ IsFacadeCall
   /\ lastCall.op = "getDetails"
   /\ lastCall.storeCalled
   /\ lastCall.up.store
   /\ lastCall.up.file
   /\ ~lastCall.holds.store
   /\ ~lastCall.holds.file)
  => lastCall.out.kind # "throw"

\* C7: for an identifier that has a row in the entity table, getDetails on
\* the store query engine returns that row's record, never NotFound, and the
\* facade (its store being available) returns the same record.
C7_PresentIdIsFound ==
  (/\ IsFacadeCall
   /\ lastCall.op = "getDetails"
   /\ lastCall.storeCalled
   /\ lastCall.up.store
   /\ lastCall.holds.store)
  => /\ lastCall.storeOut.kind = "value"
     /\ Len(lastCall.storeOut.val) = 1
     /\ lastCall.storeOut.val[1].registry_code = lastCall.arg
     /\ lastCall.storeOut.val[1] \in lastCall.holds.rows
     /\ lastCall.out = lastCall.storeOut

\* C7 witness: after a completed import pass, getDetails was asked for an
\* identifier the entity table holds.
C7_Witness ==
  /\ IsFacadeCall
  /\ lastCall.op = "getDetails"
  /\ lastCall.storeCalled
  /\ lastCall.up.store
  /\ lastCall.holds.store
  /\ csvPassesDone >= 1
  /\ lastCall.out.kind = "value"

\* ------------------------------------------------- claims on the three tiers
\* The tier a direct call was made on is reachable and its entity data does
\* not hold the identifier asked for.
AbsentInReachableTier ==
  /\ lastCall.op = "getDetails"
  /\ \/ lastCall.via = "store" /\ lastCall.up.store /\ ~lastCall.holds.store
     \/ lastCall.via = "file" /\ lastCall.up.file /\ ~lastCall.holds.file
     \/ lastCall.via = "live" /\ lastCall.up.live /\ ~lastCall.holds.remote

Substrings(n) == {SubSeq(n, i, j) : i \in 1..Len(n), j \in 1..Len(n)} \ {<<>>}

\* Limits a caller passes to search: none (0), or a small one.
Limits == 0..MaxRows

\* The store's search, run in this state with these criteria, returns the
\* record the importer writes for the parsed row rec.
Retrieved(rec, params) ==
  \E k \in 1..Len(DbSearchCompanies(params)) :
    DbSearchCompanies(params)[k] = CompanyRowOf(rec)

\* Rows of the entity table that a name criterion matches.
NameMatches(s) == Len(SelectSeq(companies, LAMBDA r : Like(r.name, s)))

\* A completed pass over the delimited file, no pass in progress.
CsvImported == csvPassesDone >= 1 /\ run = "none" /\ dbFile = "schema"

\* C11 as stated: once an import pass has completed, every record the batch
\* writer was given is returned by search with its exact identifier and by
\* search with any substring of its name.
C11_RoundTripEveryRecord ==
  CsvImported =>
    \A i \in 1..Len(csvFile) :
      /\ Retrieved(csvFile[i], Params(csvFile[i].ariregistri_kood, <<>>, 0))
      /\ \A s \in Substrings(csvFile[i].nimi) : Retrieved(csvFile[i], Params(0, s, 0))

\* C11 (amended): once an import pass has completed, every record that is the
\* last one written for its identifier is returned by search with its exact
\* identifier under any limit, and by search with any substring of its name
\* whenever the rows matching that substring do not outnumber the limit in
\* force (the caller's, or 100).
C11_RoundTrip ==
  CsvImported =>
    \A i \in 1..Len(csvFile) :
      i = LastRowIndex(csvFile[i].ariregistri_kood) =>
        \A l \in Limits :
          /\ Retrieved(csvFile[i], Params(csvFile[i].ariregistri_kood, <<>>, l))
          /\ \A s \in Substrings(csvFile[i].nimi) :
               NameMatches(s) <= LimitOf(Params(0, s, l))
                 => Retrieved(csvFile[i], Params(0, s, l))

\* C11 witness: a file of MaxRows rows with distinct identifiers has been
\* imported, a one-letter part of the first row's name matches more than one
\* row, and a search for it under a limit that admits them all returns the
\* first row's record.
C11_Witness ==
  /\ CsvImported
  /\ Len(csvFile) = MaxRows
  /\ Len(companies) >= 2
  /\ NameMatches(<<csvFile[1].nimi[2]>>) >= 2
  /\ csvFile[1].ariregistri_kood # csvFile[2].ariregistri_kood
  /\ Retrieved(csvFile[1], Params(0, <<csvFile[1].nimi[2]>>, 2))

\* -------------------------------------------- claims on facade construction
\* The last construction found the store file absent or failed to open it.
StoreUnavailableAt(c) == c \in {"absent", "openFailed"}

\* C12: store absence is not a failure.  new RIKClient() never raises; when
\* the store file is absent or opening it fails the facade holds no store
\* client, and every query made on that facade is answered by the
\* file-backed tier without attempting the store.
C12_StoreAbsenceIsNotAFailure ==
  /\ construction # "raised"
  /\ StoreUnavailableAt(construction) => facade = "fileOnly"
  /\ (IsFacadeCall /\ StoreUnavailableAt(lastCall.construction))
       => /\ ~lastCall.storeCalled
          /\ lastCall.storeOut = NotCalled
          /\ lastCall.fileCalled
          /\ lastCall.out = IF lastCall.fileOut.kind = "throw" /\ FileErrorCaught(lastCall.op)
                            THEN Value(<<>>) ELSE lastCall.fileOut

\* C12 witness: the store file exists with imported rows, opening it failed
\* at construction, and a search was answered from the delimited file.
C12_Witness ==
  /\ IsFacadeCall
  /\ lastCall.construction = "openFailed"
  /\ Len(companies) >= 1
  /\ lastCall.op = "search"
  /\ lastCall.fileCalled
  /\ lastCall.out.kind = "value"
  /\ lastCall.out.val # <<>>

\* ------------------------------------------------ claims on the probe
IsProbe == lastCall.via = "probe"

\* C13: the availability probe never raises and reports each source
\* independently: whatever happens while the store is probed, the caller
\* gets a report, and the report's entries for the files are what the probe
\* of the files found.
C13_ProbeReportsIndependently ==
  IsProbe =>
    /\ lastCall.out.kind = "value"
    /\ Len(lastCall.out.val) = 1
    /\ lastCall.out.val[1].files = FileCheckDataAvailability(lastCall.arg)
    /\ (lastCall.storeCalled /\ lastCall.storeOut.kind = "throw")
         => ~lastCall.out.val[1].database_companies

\* --------------------------------------------- claims on getAffiliatedPersons
Count(seq, x) == Cardinality({i \in 1..Len(seq) : seq[i] = x})

\* The child rows of an identifier, as the table holds them.
ChildRows(code) == SelectSeq(board_members, LAMBDA r : r.registry_code = code)

\* seq is ordered by start_date descending.
StartDescending(seq) ==
  \A i, j \in 1..Len(seq) : i < j => seq[i].start_date >= seq[j].start_date

C14_WitnessDegraded ==
  /\ IsFacadeCall
  /\ lastCall.op = "getAffiliatedPersons"
  /\ lastCall.storeOut = Throw(ErrStore)
  /\ ~jsonPresent
  /\ lastCall.out = Value(<<>>)

\* ------------------------------------------------------- claims on search
\* Criteria callers build: with or without an identifier, with or without a
\* name part, and with the limit they supply.
CallerCriteria(l) ==
  {Params(code, name, l) : code \in {0} \cup Ids, name \in {<<>>, <<"x">>, <<"q">>}}

\* C15: search never returns more records than the limit the caller supplies
\* (any limit from 0 up), in the store query engine and in the file-backed
\* client, and criteria that match nothing give the empty list, not an error.
C15_SearchBounded ==
  \A l \in Limits : \A p \in CallerCriteria(l) :
    /\ dbFile = "schema" => Len(DbSearchCompanies(p)) <= l
    /\ csvPresent =>
         /\ FileSearchCompanies(p, NoCache).out.kind = "value"
         /\ Len(FileSearchCompanies(p, NoCache).out.val) <= l

\* The part of C15 that the code keeps: the bound holds for every supplied
\* limit from 1 up, and without a limit no more than DefaultLimit records
\* come back; unmatched criteria give the empty list.
C15_SearchBoundedFromOne ==
  \A l \in Limits : \A p \in CallerCriteria(l) :
    /\ dbFile = "schema" => Len(DbSearchCompanies(p)) <= LimitOf(p)
    /\ csvPresent =>
         /\ FileSearchCompanies(p, NoCache).out.kind = "value"
         /\ Len(FileSearchCompanies(p, NoCache).out.val) <= LimitOf(p)

\* ------------------------------------------- claims on searchByPersonName
\* Child rows whose derived full name contains the name and whose owning
\* entity is in the entity table.
MatchingPairs(name) ==
  SelectSeq(board_members,
            LAMBDA r : Like(r.full_name, name) /\ ParentExists(companies, r.registry_code))

PersonNames == {<<"A">>, <<"a">>, <<"B">>, <<"C">>, <<"A", " ", "B">>}

\* C16: searchByPersonName on the store query engine returns every pair of
\* an entity and one of its child rows whose full name contains the name,
\* none omitted, each with the owning entity's display name, ordered by
\* tenure start descending.
C16_SearchByPersonComplete ==
  dbFile = "schema" =>
    \A name \in PersonNames :
      LET res == DbSearchByPerson(name)
      IN  /\ Len(res) = Len(MatchingPairs(name))
          /\ StartDescending(res)
          /\ \A k \in 1..Len(res) :
               /\ Like(res[k].person_name, name)
               /\ res[k].company_name = CompanyNameOf(res[k].registry_code)

\* The part of C16 that the code keeps: the result is the first PersonLimit
\* matching pairs in descending order of tenure start.
C16_SearchByPersonUpToLimit ==
  dbFile = "schema" =>
    \A name \in PersonNames :
      LET res == DbSearchByPerson(name)
      IN  /\ Len(res) = IF Len(MatchingPairs(name)) <= PersonLimit
                        THEN Len(MatchingPairs(name)) ELSE PersonLimit
          /\ StartDescending(res)
          /\ \A k \in 1..Len(res) :
               /\ Like(res[k].person_name, name)
               /\ res[k].company_name = CompanyNameOf(res[k].registry_code)

\* ------------------------------------------------- claims on the JSON import
\* Nested entries of the dump, over all its top-level objects.
TotalEntries ==
  LET RECURSIVE Sum(_)
      Sum(objs) == IF objs = <<>> THEN 0
                   ELSE Len(Head(objs).kaardile_kantud_isikud) + Sum(Tail(objs))
  IN  Sum(jsonFile)

\* The child row is the flattening of nested entry m of top-level object o:
\* it carries o's identifier and m's name parts, and where both parts are
\* present its full name is the first part, one space, the last part.
FlattenedFrom(row, o, m, code) ==
  /\ row.registry_code = code
  /\ row.first_name = m.eesnimi
  /\ row.last_name = m.nimi_arinimi
  /\ row.start_date = m.algus_kpv
  /\ (m.eesnimi # Null /\ m.nimi_arinimi # Null)
       => row.full_name = m.eesnimi \o <<" ">> \o m.nimi_arinimi

\* C17: flattening.  Every child row is the flattening of one nested entry
\* of the dump and carries the identifier of that entry's top-level object;
\* and when the first importer run (which starts from an empty child table)
\* has completed its pass over the dump, there is exactly one row per nested
\* entry.
C17_Flattening ==
  /\ \A i \in 1..Len(board_members) :
       \E o \in 1..Len(jsonFile) :
         \E k \in 1..Len(jsonFile[o].kaardile_kantud_isikud) :
           FlattenedFrom(board_members[i], jsonFile[o],
                         jsonFile[o].kaardile_kantud_isikud[k],
                         jsonFile[o].ariregistri_kood.v)
  /\ (runs = 1 /\ boardPassesDone = 1 /\ run = "none")
       => Len(board_members) = TotalEntries

\* The part of C17 that the code keeps: the same, with each row carrying the
\* text the store made of the bound identifier instead of the identifier.
C17_FlatteningUpToCode ==
  /\ \A i \in 1..Len(board_members) :
       \E o \in 1..Len(jsonFile) :
         \E k \in 1..Len(jsonFile[o].kaardile_kantud_isikud) :
           \E code \in {jsonFile[o].ariregistri_kood.v,
                        RealText(jsonFile[o].ariregistri_kood.v)} :
             FlattenedFrom(board_members[i], jsonFile[o],
                           jsonFile[o].kaardile_kantud_isikud[k], code)
  /\ (runs = 1 /\ boardPassesDone = 1 /\ run = "none")
       => Len(board_members) = TotalEntries

\* ------------------------------------------------ claims on the batch writer
RECURSIVE SumOf(_)
SumOf(ns) == IF ns = <<>> THEN 0 ELSE Head(ns) + SumOf(Tail(ns))

\* Records in the stream of the current or last pass.
StreamLength == IF passLog.kind = "csv" THEN Len(csvFile) ELSE TotalEntries

\* Transactions of exactly BatchSize records, except a last smaller one once
\* the pass is done.
ExactBatches ==
  \A i \in 1..Len(passLog.txs) :
    \/ passLog.txs[i] = BatchSize
    \/ /\ i = Len(passLog.txs)
       /\ passLog.status = "done"
       /\ passLog.txs[i] \in 1..(BatchSize - 1)

\* What holds of every pass while it runs and once it is done.
BatchingOfPass ==
  /\ Len(buffer) <= BatchSize
  /\ passLog.status \in {"running", "done", "failed"} => ExactBatches
  /\ passLog.status = "running" => SumOf(passLog.txs) + Len(buffer) = count
  /\ passLog.status = "done" =>
       /\ buffer = <<>>
       /\ SumOf(passLog.txs) = StreamLength

\* C18: batching discipline.  In every import pass the transactions hold
\* exactly BatchSize records except one final smaller remainder, the buffer
\* never holds more than BatchSize records, and the pass finishes with
\* success: it never fails, and when it is done the buffer is empty and
\* exactly the stream's n records have been handed to the store.
C18_BatchingDiscipline ==
  /\ BatchingOfPass
  /\ passLog.status # "failed"

\* The part of C18 that the code keeps: the same of every pass that no
\* insert ends; a pass fails only where foreign keys are enforced and the
\* batch holds an entry whose parent row is missing.
C18_BatchingUnlessInsertFails ==
  /\ BatchingOfPass
  /\ passLog.status = "failed" =>
       /\ passLog.kind = "board"
       /\ \E o \in 1..Len(jsonFile) :
            /\ jsonFile[o].kaardile_kantud_isikud # <<>>
            /\ \/ jsonFile[o].ariregistri_kood.num
               \/ ~ParentExists(companies, jsonFile[o].ariregistri_kood.v)

\* --------------------------------------------------- claims on backpressure
\* Records the stream has delivered to the handler that no transaction has
\* committed yet.
Uncommitted == count - SumOf(passLog.txs)

WellFormedCodes ==
  {csvFile[i].ariregistri_kood : i \in {j \in 1..Len(csvFile) : csvFile[j] # ShortRow}}

\* C20: malformed rows are not fatal.  A pass over a delimited file that
\* holds a row with the wrong number of fields (and no row that the store
\* rejects) does not fail; it ends done, with every well-formed row of the
\* file imported.
C20_MalformedRowsSkipped ==
  (\A i \in 1..Len(csvFile) : ~CompanyInsertFails(csvFile[i])) =>
    /\ passLog.kind = "csv" => passLog.status # "failed"
    /\ (passLog.kind = "csv" /\ run = "none" /\ runs >= 1)
         => /\ passLog.status = "done"
            /\ CodesOf(companies) = WellFormedCodes

\* ------------------------------------------------ claims on missing sources
\* The file a file-backed operation reads first is not on disk.
NeededFileMissing(op) ==
  IF op \in {"getAffiliatedPersons", "searchByPersonName"} THEN ~jsonPresent
  ELSE ~csvPresent

\* C21: missing source file.  A file-backed query whose data file (the
\* delimited file, or the JSON dump) is not on disk fails with the
\* "Data file not found" error, which carries the re-download hint.
C21_MissingSourceRaises ==
  (lastCall.via = "file" /\ NeededFileMissing(lastCall.op))
    => lastCall.out = Throw(ErrDataFile)

\* The part of C21 that the code keeps: the operations that read the
\* delimited file raise that error when it is missing; the two that read the
\* JSON dump catch it and return the empty list.
C21_MissingSourceRaisesOrEmpty ==
  (lastCall.via = "file" /\ NeededFileMissing(lastCall.op))
    => lastCall.out = IF lastCall.op \in {"getAffiliatedPersons", "searchByPersonName"}
                      THEN Value(<<>>) ELSE Throw(ErrDataFile)

\* ------------------------------------------------ claims on child references
\* A board pass has ended, one way or the other.
BoardPassEnded == passLog.kind = "board" /\ passLog.status \in {"done", "failed"}

\* Every nested entry of the dump has its row in the child table.
EveryEntryStored ==
  \A o \in 1..Len(jsonFile) :
    \A k \in 1..Len(jsonFile[o].kaardile_kantud_isikud) :
      \E i \in 1..Len(board_members) :
        \E code \in {jsonFile[o].ariregistri_kood.v,
                     RealText(jsonFile[o].ariregistri_kood.v)} :
          FlattenedFrom(board_members[i], jsonFile[o],
                        jsonFile[o].kaardile_kantud_isikud[k], code)

\* C22: soft reference during bulk load.  A child record is stored whether
\* or not its parent identifier is in the entity table at insert time: no
\* board pass fails, and when a board pass has ended every nested entry of
\* the dump has its row.
C22_SoftReference ==
  BoardPassEnded => (passLog.status = "done" /\ EveryEntryStored)

\* The part of C22 that the code keeps: the same on a connection that does
\* not enforce foreign keys.
C22_SoftReferenceWhenNotEnforced ==
  (BoardPassEnded /\ ~fkOn) => (passLog.status = "done" /\ EveryEntryStored)

\* ------------------------------------------- claims on referential completeness
\* No child row names an identifier the entity table lacks.
NoDanglingChild ==
  \A i \in 1..Len(board_members) : ParentExists(companies, board_members[i].registry_code)

\* Every source has been imported by a completed pass and no script runs.
AllSourcesCompleted ==
  /\ run = "none"
  /\ csvPassesDone >= 1
  /\ boardPassesDone >= 1
  /\ passLog.status = "done"

C23_CompleteWhereEnforced ==
  /\ [][(fkOn /\ Len(board_members') > Len(board_members))
          => \A i \in (Len(board_members) + 1)..Len(board_members') :
               ParentExists(companies, board_members'[i].registry_code)]_vars
  /\ [][CodesOf(companies) \subseteq CodesOf(companies')]_vars

\* ------------------------------------------------ claims on search criteria
\* The record satisfies every criterion that is supplied.
SatisfiesAll(r, p) ==
  /\ p.registryCode # 0 => r.registry_code = p.registryCode
  /\ p.name # <<>> => Includes(r.name, p.name)

\* Identifiers of the records of a result.
ResultCodes(res) == {res[i].registry_code : i \in 1..Len(res)}

\* C24: conjunctive criteria in every tier.  Every record that search
\* returns satisfies every supplied criterion, in the store query engine and
\* in the file-backed client; and once the delimited file has been imported,
\* the two return the same identifiers for the same criteria.
C24_ConjunctiveCriteria ==
  \A p \in CallerCriteria(0) :
    LET fromStore == DbSearchCompanies(p)
        fromFile  == FileSearchCompanies(p, NoCache).out.val
    IN  /\ \A i \in 1..Len(fromStore) : SatisfiesAll(fromStore[i], p)
        /\ \A i \in 1..Len(fromFile) : SatisfiesAll(fromFile[i], p)
        /\ CsvImported => ResultCodes(fromStore) = ResultCodes(fromFile)

\* The part of C24 that the code keeps: the store query engine's WHERE
\* clause is the conjunction of the supplied criteria, and the file-backed
\* client returns a record as soon as its identifier equals the identifier
\* criterion or, failing that, its name contains the name criterion.
C24_StoreConjunctiveFileFirstMatch ==
  \A p \in CallerCriteria(0) :
    LET fromStore == DbSearchCompanies(p)
        fromFile  == FileSearchCompanies(p, NoCache).out.val
    IN  /\ \A i \in 1..Len(fromStore) : SatisfiesAll(fromStore[i], p)
        /\ \A i \in 1..Len(fromFile) :
             \/ p.registryCode # 0 /\ fromFile[i].registry_code = p.registryCode
             \/ p.name # <<>> /\ Includes(fromFile[i].name, p.name)

\* --------------------------------------------- claims on the file-backed cache
\* The delimited file's entry was in the cache, within its time, when the
\* logged call was made.
EntryWasFresh ==
  /\ cacheLog.before.basic # <<>>
  /\ cacheLog.at <= cacheLog.before.basicUntil

\* The name the rows give for identifier k: that of the last row carrying k.
LastNameIn(rows, k) ==
  rows[CHOOSE i \in 1..Len(rows) :
         /\ rows[i].ariregistri_kood = k
         /\ \A j \in (i + 1)..Len(rows) : rows[j].ariregistri_kood # k].nimi

\* What getCompanyDetails answers for identifier k from these rows.
DetailsFrom(rows, k) ==
  IF \E i \in 1..Len(rows) : rows[i].ariregistri_kood = k
  THEN Value(<<[registry_code |-> k, name |-> LastNameIn(rows, k)]>>)
  ELSE Throw(ErrCompanyNotFound)

ReadsBasic(op) == op \in {"search", "getDetails", "aggregate"}

\* C25: file-backed cache.  A call that needs the delimited file and finds
\* its entry within the time-to-live is served from the entry: the answer is
\* made from the cached map whatever the disk holds now, and the entry and
\* its time are left as they were.  A call that finds no entry, or one whose
\* time has passed, reads the file: the answer is made from the disk's rows
\* and the entry is kept for CacheTTL from the time of the call; when the
\* file is not on disk the call fails and leaves no entry.
C25_FileCache ==
  (cacheLog.n >= 1 /\ ReadsBasic(cacheLog.op)) =>
    IF EntryWasFresh
    THEN /\ cacheLog.after.basic = cacheLog.before.basic
         /\ cacheLog.after.basicUntil = cacheLog.before.basicUntil
         /\ cacheLog.op = "getDetails"
              => cacheLog.out = DetailsFrom(cacheLog.before.basic[1], cacheLog.arg)
    ELSE IF cacheLog.present
    THEN /\ cacheLog.after.basic # <<>>
         /\ cacheLog.after.basicUntil = cacheLog.at + CacheTTL
         /\ cacheLog.op = "getDetails"
              => cacheLog.out = DetailsFrom(cacheLog.disk, cacheLog.arg)
    ELSE /\ cacheLog.after.basic = <<>>
         /\ cacheLog.out = Throw(ErrDataFile)

\* C25 witness: the file on disk was replaced after it had been loaded, and
\* a getDetails call within the entry's time answered with the name the old
\* file gave, not the one on disk.
C25_Witness ==
  /\ cacheLog.n >= 2
  /\ cacheLog.op = "getDetails"
  /\ EntryWasFresh
  /\ cacheLog.at >= 1
  /\ cacheLog.out.kind = "value"
  /\ cacheLog.present
  /\ cacheLog.out # DetailsFrom(cacheLog.disk, cacheLog.arg)

\* C25 second witness state: a call found the entry's time passed, read the
\* replaced file and answered from it.
C25_WitnessExpired ==
  /\ cacheLog.n >= 2
  /\ cacheLog.op = "getDetails"
  /\ cacheLog.before.basic # <<>>
  /\ cacheLog.at > cacheLog.before.basicUntil
  /\ cacheLog.out.kind = "value"
  /\ cacheLog.out # DetailsFrom(cacheLog.before.basic[1], cacheLog.arg)

\* ------------------------------------------------- claims on the read path
\* The step is one of an importer script: each of them starts a run, ends
\* one, moves to the next pass or takes a record from its source.
ImporterStep == run' # run \/ pass' # pass \/ pos' # pos \/ runs' # runs

\* C26: the read path never mutates data.  Only importer steps change the
\* store: every other step (a query of the facade, which runs the store
\* query engine's and the file-backed client's operations, the availability
\* probe, a construction) leaves the entity table, the child table, the
\* store file and the data files on disk as they were.
C26_ReadPathNeverMutates ==
  [][~ImporterStep =>
       /\ companies' = companies
       /\ board_members' = board_members
       /\ dbFile' = dbFile
       /\ csvFile' = csvFile
       /\ jsonFile' = jsonFile]_vars

\* C26 witness: both tables hold rows, no importer runs, and the facade has
\* answered a getAffiliatedPersons call from the store with rows.
C26_Witness ==
  /\ run = "none"
  /\ Len(companies) >= 1
  /\ Len(board_members) >= 1
  /\ IsFacadeCall
  /\ lastCall.op = "getAffiliatedPersons"
  /\ lastCall.storeCalled
  /\ lastCall.storeOut.kind = "value"
  /\ lastCall.storeOut.val # <<>>
  /\ Len(ChildRows(lastCall.arg)) = Len(lastCall.storeOut.val)

\* ------------------------------------------------ claims on tier selection
\* C27: tier selection is fixed at construction.  The facade holds a store
\* client exactly when its constructor found the store file and opened it; a
\* facade constructed while the file was absent never queries the store,
\* also when the file exists and answers at the time of the call; and the
\* tiers change only in a step that constructs a facade, which makes no call
\* and starts with an empty file cache.
C27_TierSelectionFixed ==
  /\ [](/\ facade = "withDb" <=> construction = "opened"
        /\ (IsFacadeCall /\ lastCall.construction = "absent")
             => (~lastCall.storeCalled /\ lastCall.fileCalled))
  /\ [][(facade' # facade \/ construction' # construction)
          => (lastCall' = lastCall /\ dataCache' = NoCache /\ ~ImporterStep)]_vars
  /\ [][lastCall' # lastCall => (facade' = facade /\ construction' = construction)]_vars

\* C27 witness: the facade was constructed while the store file was absent,
\* the importer has filled the store since, and a getDetails call for an
\* identifier the store holds was answered by the file-backed tier alone.
C27_Witness ==
  /\ IsFacadeCall
  /\ lastCall.construction = "absent"
  /\ lastCall.op = "getDetails"
  /\ lastCall.up.store
  /\ lastCall.holds.store
  /\ ~lastCall.storeCalled
  /\ lastCall.fileCalled
  /\ facade = "fileOnly"

\* ------------------------------------------------ claims on batch atomicity
\* The rows of the delimited file that the pass's committed transactions
\* carried.
CommittedRows == SubSeq(csvFile, 1, SumOf(passLog.txs))

\* C28: batch atomicity on failure.  The step in which a batch transaction
\* fails commits none of that batch's rows and undoes none of the earlier
\* ones; so after a failed pass of the first run the entity table holds
\* exactly the records of the whole batches committed before the failure.
C28_BatchAtomicOnFailure ==
  /\ [](passLog.kind = "csv" =>
          /\ \A i \in 1..Len(passLog.txs) : passLog.txs[i] = BatchSize
               \/ (i = Len(passLog.txs) /\ passLog.status = "done")
          /\ runs = 1 => companies = InsertManyCompanies(<<>>, CommittedRows))
  /\ [][(passLog.kind = "csv" /\ passLog'.status = "failed" /\ passLog.status = "running")
          => companies' = companies]_vars

\* C28 witness: the first run failed in its first batch, whose first row is
\* a good one: nothing of the batch is in the table.
C28_Witness ==
  /\ runs = 1
  /\ passLog = [kind |-> "csv", txs |-> <<>>, status |-> "failed"]
  /\ Len(csvFile) >= BatchSize
  /\ ~CompanyInsertFails(csvFile[1])
  /\ csvFile[1] # ShortRow
  /\ CompanyInsertFails(csvFile[BatchSize])
  /\ companies = <<>>

\* C28 second witness state: the first run committed a whole batch and
\* failed in the remainder; the table holds the batch.
C28_WitnessAfterBatch ==
  /\ runs = 1
  /\ passLog = [kind |-> "csv", txs |-> <<BatchSize>>, status |-> "failed"]
  /\ Len(csvFile) > BatchSize
  /\ CompanyInsertFails(csvFile[BatchSize + 1])
  /\ Len(companies) >= 1

\* ------------------------------------------------ claims on overlapping loads
\* The map of the whole delimited file.
WholeMap == ParseBasic(<<>>, csvFile)

\* The file parses to its end: no line has the wrong number of fields.
Parses == csvPresent /\ \A i \in 1..Len(csvFile) : csvFile[i] # ShortRow

\* C29: no partial cache entries under overlapping calls.  Whatever the
\* interleaving of loadBasicData calls, the cache entry for the delimited
\* file, when there is one, is the map of the whole file, and so is every
\* map a call has returned; a file that cannot be loaded leaves no entry,
\* and a step in which a load fails writes nothing to the cache; a call that
\* finds no entry starts a load of its own.
C29_NoPartialCacheEntries ==
  /\ [](/\ dataCache.basic # <<>> => (Parses /\ dataCache.basic[1] = WholeMap)
        /\ \A c \in Callers :
             /\ loads.of[c].out.kind = "value" => loads.of[c].out.val = <<WholeMap>>
             /\ loads.of[c].out.kind = "throw" => ~Parses)
  /\ [][\A c \in Callers :
          (loads'.of[c].out.kind = "throw" /\ loads'.of[c] # loads.of[c])
            => dataCache' = dataCache]_vars
  /\ [][\A c \in Callers :
          (loads.of[c].st = "idle" /\ loads'.started # loads.started
             /\ loads'.of[c] # loads.of[c] /\ dataCache.basic = <<>> /\ csvPresent)
            => loads'.of[c].st = "parsing"]_vars

\* C29 witness: two loads overlap, each part-way through a file of MaxRows
\* rows at a different row, and the cache has no entry.
C29_Witness ==
  /\ Len(csvFile) = MaxRows
  /\ Parses
  /\ loads.of[1].st = "parsing"
  /\ loads.of[2].st = "parsing"
  /\ loads.of[1].pos = 2
  /\ loads.of[2].pos = 1
  /\ dataCache.basic = <<>>

\* C29 second witness state: a load failed on a short line, no entry was
\* written, and the same caller's next call is parsing again.
C29_WitnessRetry ==
  /\ ~Parses
  /\ csvPresent
  /\ loads.of[2].out = Throw(ErrCsvParse)
  /\ loads.of[1].st = "parsing"
  /\ loads.of[1].pos >= 1
  /\ loads.started = MaxLoads
  /\ dataCache.basic = <<>>

\* ------------------------------------------------------ claims on retries
Pending == http.st \in {"inflight", "sleeping"}
Settled == http.st \in {"resolved", "rejected"}

\* C30: bounded retry.  A request is re-issued only after a 429 response and
\* at most retryAttempts times; any other failure rejects it at once; the
\* wait before the k-th retry is min(1000 * 2^k, 10000) ms, which does not
\* decrease with k; and every request that is sent is eventually resolved or
\* rejected.
C30_BoundedRetry ==
  /\ [](/\ http.sent <= http.attempts + 1
        /\ Len(http.waits) <= http.attempts
        /\ Pending => Len(http.waits) = (IF http.st = "sleeping" THEN http.sent
                                         ELSE http.sent - 1)
        /\ \A k \in 1..Len(http.waits) :
             /\ http.waits[k] = Min(1000 * Pow2(k), 10000)
             /\ k > 1 => http.waits[k - 1] <= http.waits[k])
  /\ [][(http'.n = http.n /\ http'.sent = http.sent + 1)
          => (http.st = "sleeping" /\ http.last = 429)]_vars
  /\ [][(http.st = "inflight" /\ http' # http /\ http'.last \notin {200, 429})
          => (http'.st = "rejected" /\ http'.sent = http.sent)]_vars
  /\ (Pending ~> Settled)

\* C30 witness: a client set up with MaxAttempts retries had its request
\* answered with 429 every time: it was issued MaxAttempts + 1 times, waited
\* 2000 ms first and the capped 10000 ms last, and was rejected.
C30_Witness ==
  /\ http.attempts = MaxAttempts
  /\ http.st = "rejected"
  /\ http.last = 429
  /\ http.sent = MaxAttempts + 1
  /\ Len(http.waits) = MaxAttempts
  /\ http.waits[1] = 2000
  /\ http.waits[MaxAttempts] = 10000

====
